---- MODULE Spec2Model ----
(***************************************************************************)
(* Verification model of the cursor_manager backend.                       *)
(*                                                                         *)
(*   SpecHost  - NativeHost.run: the framed JSON-RPC request loop          *)
(*               (backend/native_host.py).                                 *)
(*   SpecBatch - BatchService: bulk calls and the batch_operations table   *)
(*               (backend/services/batch_service.py).                      *)
(*   SpecSched - SchedulerService: jobs, settings and timers              *)
(*               (backend/services/scheduler_service.py).                  *)
(*   SpecEvents, SpecPoll - EventService: the sync_events log, its         *)
(*               readers and a poller (backend/services/event_service.py). *)
(*   SpecSettings - SettingsManager.update_section                         *)
(*               (backend/settings_manager.py).                            *)
(*                                                                         *)
(* JSON values are records tagged by "kind".  A JSON text is the value it  *)
(* encodes together with its length in bytes: `core` bytes for the value   *)
(* itself followed by `pad` bytes of trailing whitespace.                  *)
(***************************************************************************)
EXTENDS Integers, Sequences, FiniteSets, TLC

\* ------------------------------------------------------------------------
\* Bounds of the model
\* ------------------------------------------------------------------------
MaxFrames == 2

\* items submitted over a run, in all calls together
MaxItems == 2

MaxCalls == 2

\* ------------------------------------------------------------------------
\* JSON values
\* ------------------------------------------------------------------------
Null == [kind |-> "null"]

Num(ds) == [kind |-> "num", digits |-> ds]

Str(segs) == [kind |-> "str", segs |-> segs]

Obj(m) == [kind |-> "obj", members |-> m]

BadJson == [kind |-> "bad"]

LoadError == [kind |-> "JSONDecodeError"]

\* dict.get(key): the member, or None when the key is absent
Get(obj, key) ==
    IF key \in DOMAIN obj.members THEN obj.members[key] ELSE Null

\* Python truthiness of a decoded message (`if not message`)
Falsy(v) ==
    \/ v.kind = "null"
    \/ v.kind = "num" /\ v.digits = <<0>>
    \/ v.kind = "obj" /\ DOMAIN v.members = {}

\* json.loads of the first n bytes of a text.  A self-delimited value
\* (object) decodes only when all of its `core` bytes are present, trailing
\* whitespace being optional; every non-empty prefix of a number is a number.
Loads(text, n) ==
    IF text.val.kind = "bad" \/ n = 0 THEN LoadError
    ELSE IF text.val.kind = "num"
         THEN IF n >= text.core THEN text.val
              ELSE Num(SubSeq(text.val.digits, 1, n))
    ELSE IF n >= text.core THEN text.val
    ELSE LoadError

\* ------------------------------------------------------------------------
\* Dispatch table of NativeHost
\* ------------------------------------------------------------------------
Namespaces ==
    <<"accounts", "cards", "generator", "bypass", "proTrial", "export",
      "import", "status", "batch", "system">>

Actions(ns) ==
    CASE ns = "accounts" -> {"getAll", "getById", "getByEmail", "create",
                             "update", "delete", "updateLastUsed", "search",
                             "getStats"}
      [] ns = "cards" -> {"getAll", "getById", "create", "update", "delete",
                          "updateLastUsed", "search", "getStats"}
      [] ns = "system" -> {"ping", "version", "backup", "restore"}
      [] ns = "generator" -> {"generateCard", "generateMultiple",
                              "validateCard"}
      [] ns = "bypass" -> {"getTestSuite", "getAllTestSuites", "storeResult",
                           "getResults", "getStatistics", "exportResults",
                           "deleteOldResults"}
      [] ns = "proTrial" -> {"prepareActivation", "updateStatus",
                             "checkStatus", "getHistory", "renew",
                             "setAutoRenew", "getStatistics"}
      [] ns = "export" -> {"accounts", "cards", "all", "toFile"}
      [] ns = "import" -> {"accounts", "cards", "fromFile", "validate"}
      [] ns = "status" -> {"refreshAccount", "updateFromApi", "refreshAll",
                           "getHealth", "getSystemHealth"}
      [] ns = "batch" -> {"createAccounts", "deleteAccounts", "updateStatus",
                          "createCards", "getProgress", "getHistory"}
      [] OTHER -> {}

InternalError == 0 - 32603

\* A method string is kept as its "."-separated segments.
\* method.startswith(ns + "."): the first segment is ns and a "." follows.
StartsWithNs(segs, ns) == Len(segs) >= 2 /\ segs[1] = ns

KnownNamespace(segs) ==
    \E i \in 1..Len(Namespaces) : StartsWithNs(segs, Namespaces[i])

\* method.split(".", 1)[1] names one of the handler's actions
KnownAction(segs) ==
    /\ KnownNamespace(segs)
    /\ Len(segs) = 2
    /\ segs[2] \in Actions(segs[1])

\* Route with the final else branch of a handler missing: an unknown action
\* falls through and returns None
Route_NoElse(segs, behaviour) ==
    IF ~ KnownNamespace(segs) THEN [raised |-> TRUE, what |-> "Unknown method"]
    ELSE IF segs = <<"system", "ping">> THEN [raised |-> FALSE, what |-> "pong"]
    ELSE IF KnownAction(segs) /\ behaviour = "raise"
         THEN [raised |-> TRUE, what |-> "handler error"]
    ELSE [raised |-> FALSE, what |-> "value"]

\* What the routed handler does.  behaviour is the collaborator's outcome
\* for a known action ("return" or "raise"); system.ping touches nothing and
\* always returns.
Route(segs, behaviour) ==
    IF ~ KnownNamespace(segs) THEN [raised |-> TRUE, what |-> "Unknown method"]
    ELSE IF ~ KnownAction(segs) THEN [raised |-> TRUE, what |-> "Unknown action"]
    ELSE IF segs = <<"system", "ping">> THEN [raised |-> FALSE, what |-> "pong"]
    ELSE IF behaviour = "raise" THEN [raised |-> TRUE, what |-> "handler error"]
    ELSE [raised |-> FALSE, what |-> "value"]

ResultResponse(id, r) == [jsonrpc |-> "2.0", id |-> id, result |-> r]

\* the error response built without the request's id
ErrorResponse_NoId(id, msg) ==
    [jsonrpc |-> "2.0", id |-> Null,
     error |-> [code |-> InternalError, message |-> msg]]

ErrorResponse(id, msg) ==
    [jsonrpc |-> "2.0", id |-> id,
     error |-> [code |-> InternalError, message |-> msg]]

\* handle_request without its try/except: a handler exception escapes
handle_request_NoCatch(request, behaviour) ==
    IF request.kind # "obj"
    THEN [propagates |-> TRUE, response |-> Null]
    ELSE LET request_id == Get(request, "id")
             method == Get(request, "method")
         IN IF method.kind # "str"
            THEN [propagates |-> TRUE, response |-> Null]
            ELSE LET r == Route(method.segs, behaviour)
                 IN IF r.raised
                    THEN [propagates |-> TRUE, response |-> Null]
                    ELSE [propagates |-> FALSE,
                          response |-> ResultResponse(request_id, r.what)]

\* handle_request: [propagates |-> TRUE] when an exception escapes it,
\* otherwise the response it returns.
handle_request(request, behaviour) ==
    IF request.kind # "obj"
    THEN [propagates |-> TRUE, response |-> Null]
    ELSE LET request_id == Get(request, "id")
             method == Get(request, "method")
         IN IF method.kind # "str"
            THEN [propagates |-> FALSE,
                  response |-> ErrorResponse(request_id, "AttributeError")]
            ELSE LET r == Route(method.segs, behaviour)
                 IN IF r.raised
                    THEN [propagates |-> FALSE,
                          response |-> ErrorResponse(request_id, r.what)]
                    ELSE [propagates |-> FALSE,
                          response |-> ResultResponse(request_id, r.what)]

\* ------------------------------------------------------------------------
\* Frames on standard input
\* ------------------------------------------------------------------------
\* hdr: how many of the 4 length bytes the stream delivers; declared: the
\* length they encode; avail: how many payload bytes the stream delivers
\* before it closes.
Text(v, core, pad) == [val |-> v, core |-> core, pad |-> pad]

TextLen(t) == t.core + t.pad

\* a declared length far above the bytes present.  struct.unpack("I") yields
\* any value up to 2^32 - 1; the model takes 2^31 - 1.
HostileLength == 2147483647

Request(id, segs) ==
    Obj([jsonrpc |-> Str(<<"2">>), id |-> id, method |-> Str(segs),
         params |-> Obj(<<>>)])

Texts ==
    { Text(Request(Num(<<1>>), <<"system", "ping">>), 2, 1),
      Text(Request(Num(<<2>>), <<"accounts", "create">>), 2, 0),
      Text(Request(Num(<<3>>), <<"unknown", "thing">>), 2, 0),
      Text(Request(Num(<<4>>), <<"batch", "bogus">>), 2, 0),
      Text(Obj([id |-> Num(<<5>>)]), 2, 0),
      Text(Obj(<<>>), 2, 0),
      Text(Num(<<1, 0>>), 2, 0),
      Text(BadJson, 2, 0) }

WellFramed(t) ==
    [hdr |-> 4, declared |-> TextLen(t), text |-> t, avail |-> TextLen(t)]

\* Ways a stream can end inside a frame
Tails(t) ==
    { [hdr |-> h, declared |-> TextLen(t), text |-> t, avail |-> 0] :
        h \in 1..3 }
    \cup { [hdr |-> 4, declared |-> TextLen(t), text |-> t, avail |-> a] :
             a \in 0..(TextLen(t) - 1) }
    \cup { [hdr |-> 4, declared |-> HostileLength, text |-> t,
            avail |-> TextLen(t)] }

SeqsUpTo(S, n) == UNION { [1..k -> S] : k \in 0..n }

Streams ==
    { [i \in 1..Len(body) |-> WellFramed(body[i])] \o tail :
        body \in SeqsUpTo(Texts, MaxFrames),
        tail \in {<<>>} \cup { <<f>> : f \in UNION { Tails(t) : t \in Texts } } }

\* read_message on the next frame of the stream.
\* outcome "none": returned None; "raise": an exception escaped;
\* "msg": returned the decoded message.  size: the argument of the payload
\* read, -1 when no payload read was made.
read_message(frames, pos) ==
    IF pos > Len(frames)
    THEN [outcome |-> "none", message |-> Null, size |-> 0 - 1]
    ELSE LET f == frames[pos]
         IN IF f.hdr < 4
            THEN [outcome |-> "raise", message |-> Null, size |-> 0 - 1]
            ELSE LET m == Loads(f.text, f.avail)
                 IN IF m = LoadError
                    THEN [outcome |-> "raise", message |-> Null,
                          size |-> f.declared]
                    ELSE [outcome |-> "msg", message |-> m,
                          size |-> f.declared]

\* ------------------------------------------------------------------------
\* BatchService: pure parts
\* ------------------------------------------------------------------------
\* SQL NULL of a timestamp column
NULL == 0

OperationTypes ==
    {"create_accounts", "delete_accounts", "update_status", "create_cards"}

\* The items a caller can pass.  "ok": a well-formed item the collaborator
\* accepts; "invalid": a mapping without email and cookies / without card
\* number; "raise": a well-formed item the collaborator rejects by raising;
\* "malformed": not a mapping (or a non-string email), so the first access
\* raises.
ItemKinds(op) ==
    IF op \in {"create_accounts", "create_cards"}
    THEN {"ok", "invalid", "raise", "malformed"}
    ELSE {"ok", "raise"}

\* What the body of the per-item try block does before the progress write.
\* batch_update_status passes the field dict positionally to
\* AccountService.update(account_id, **kwargs): the call raises TypeError
\* for every item.
ItemOutcome(op, kind) ==
    IF op = "update_status" THEN "raises"
    ELSE IF kind = "ok" THEN "created"
    ELSE IF kind = "invalid" THEN "validation"
    ELSE IF kind = "malformed" /\ op = "create_accounts" THEN "raises_early"
    ELSE "raises"

\* _create_batch_operation: INSERT ... VALUES (?, ?, 'running', CURRENT_TIMESTAMP)
_create_batch_operation(table, operation_type, total_items, ts) ==
    Append(table, [operation_type |-> operation_type,
                   total_items |-> total_items,
                   completed_items |-> 0,
                   failed_items |-> 0,
                   status |-> "running",
                   error_log |-> <<>>,
                   created_at |-> ts,
                   completed_at |-> NULL])

\* _update_batch_progress: UPDATE ... SET completed_items, failed_items WHERE id
_update_batch_progress(table, batch_id, completed, failed) ==
    [i \in 1..Len(table) |->
        IF i = batch_id
        THEN [table[i] EXCEPT !.completed_items = completed,
                              !.failed_items = failed]
        ELSE table[i]]

\* the finalizing UPDATE without its WHERE clause: every row is rewritten
_complete_batch_operation_AllRows(table, batch_id, status, errors, ts) ==
    [i \in 1..Len(table) |->
        [table[i] EXCEPT !.status = status,
                         !.error_log = errors,
                         !.completed_at = ts]]

\* _complete_batch_operation: UPDATE ... SET status, error_log, completed_at WHERE id
\* (error_log <<>> stands for NULL: "\n".join(errors) if errors else None)
_complete_batch_operation(table, batch_id, status, errors, ts) ==
    [i \in 1..Len(table) |->
        IF i = batch_id
        THEN [table[i] EXCEPT !.status = status,
                              !.error_log = errors,
                              !.completed_at = ts]
        ELSE table[i]]

\* the status a call passes to _complete_batch_operation
FinalStatus(failed_count) ==
    IF failed_count = 0 THEN "completed" ELSE "partial_success"

\* get_batch_progress: the row as the poller sees it
get_batch_progress(table, batch_id) ==
    IF batch_id \notin 1..Len(table)
    THEN [success |-> FALSE, batch_id |-> batch_id]
    ELSE LET row == table[batch_id]
         IN [success |-> TRUE,
             batch_id |-> batch_id,
             operation_type |-> row.operation_type,
             total_items |-> row.total_items,
             completed_items |-> row.completed_items,
             failed_items |-> row.failed_items,
             status |-> row.status,
             progress_percent |->
                 IF row.total_items > 0
                 THEN ((row.completed_items + row.failed_items) * 100)
                          \div row.total_items
                 ELSE 0,
             created_at |-> row.created_at,
             completed_at |-> row.completed_at]

\* get_batch_history: ORDER BY created_at DESC LIMIT ?: the ids of the
\* `limit` newest rows, newest first; rows with equal created_at come in
\* either order.  The set of the lists the query can return.
RECURSIVE NewestFirst(_, _, _)
NewestFirst(table, ids, n) ==
    IF n = 0 \/ ids = {} THEN {<<>>}
    ELSE UNION { { <<i>> \o rest : rest \in NewestFirst(table, ids \ {i}, n - 1) } :
                  i \in { j \in ids :
                            \A k \in ids :
                               table[j].created_at >= table[k].created_at } }

get_batch_history(table, limit) == NewestFirst(table, 1..Len(table), limit)

\* Database.execute: cursor.execute(query) then conn.commit().  st is the set
\* of committed item mutations, m = <<batch_id, item>>: the mutation is
\* durable when execute returns.
execute(st, m) == st \cup {m}

\* a raising statement of batch b with the work of the whole batch undone
execute_raising_Rollback(st, b) == { m \in st : m[1] # b }

\* Database.execute raising in batch b: no rollback is issued, what earlier
\* calls of execute committed stays
execute_raising(st, b) == st

\* One iteration of the per-item loop on the call's local state c.
\* w1fails / w2fails: the progress write inside the try block / inside the
\* except block raises (the store is locked or unwritable).
\* wrote: a progress write went through (it carries the final counts of the
\* iteration); raised: an exception left the loop.
ExceptBranch(op, c, n, count, bound, w2fails) ==
    IF op = "create_accounts" /\ ~ bound
    THEN [count |-> count, failed_count |-> c.failed_count + 1,
          errors |-> c.errors, email_bound |-> bound,
          wrote |-> FALSE, raised |-> TRUE]
    ELSE [count |-> count, failed_count |-> c.failed_count + 1,
          errors |-> Append(c.errors, [item |-> n, text |-> "exception"]),
          email_bound |-> bound,
          wrote |-> ~ w2fails, raised |-> w2fails]

ProcessItem(op, kind, c, n, w1fails, w2fails) ==
    LET out == ItemOutcome(op, kind)
        bound == c.email_bound
                   \/ (op = "create_accounts" /\ out # "raises_early")
    IN IF out = "validation"
       THEN [count |-> c.count, failed_count |-> c.failed_count + 1,
             errors |-> Append(c.errors, [item |-> n, text |-> "missing"]),
             email_bound |-> bound, wrote |-> FALSE, raised |-> FALSE]
       ELSE IF out = "created"
       THEN IF ~ w1fails
            THEN [count |-> c.count + 1, failed_count |-> c.failed_count,
                  errors |-> c.errors, email_bound |-> bound,
                  wrote |-> TRUE, raised |-> FALSE]
            ELSE ExceptBranch(op, c, n, c.count + 1, bound, w2fails)
       ELSE ExceptBranch(op, c, n, c.count, bound, w2fails)

VARIABLES stream, rpos, hpc, message, response, stdout, exitKind, dbOpen,
          lastRead, handled, raisedAt

VARIABLES batch_operations, bpc, call, calls, lastEnded, now, faults,
          reply, store, events

VARIABLES settings, _job_factories, _scheduled_jobs, timers, instances,
          started, spc, snapshot, lastCall, lastEvent, escaped

hostVars == <<stream, rpos, hpc, message, response, stdout, exitKind, dbOpen,
              lastRead, handled, raisedAt>>

batchVars == <<batch_operations, bpc, call, calls, lastEnded, now, faults,
               reply, store, events>>

schedVars == <<settings, _job_factories, _scheduled_jobs, timers, instances,
               started, spc, snapshot, lastCall, lastEvent, escaped>>

\* the sync_events table, the clock, and what the callers of EventService
\* hold: the ids record_event returned, a poller's cursor and its events,
\* and the last calls with their results
VARIABLES sync_events, sqlite_sequence, clock, issued, cursor, received,
          prevList, gap, lastList, sinceList, lastRecorded, lastPrune

\* SettingsManager._data, the settings file, and the last update_section
\* call
VARIABLES _data, settings_file, lastUpdate, updateCalls

logVars == <<sync_events, sqlite_sequence, clock, issued, cursor, received,
             prevList, gap, lastList, sinceList, lastRecorded, lastPrune>>

cfgVars == <<_data, settings_file, lastUpdate, updateCalls>>

\* the scheduler's clock, in minutes: countdown[j] is the time left until
\* the timer of job j fires (0 for no timer or a due one), sinceSync the
\* time since the last rebuild of the schedule finished, minute the time
\* since the process started
VARIABLES countdown, sinceSync, minute

timedVars == <<countdown, sinceSync, minute>>

\* two threads that configure the scheduler: where each is in its call,
\* the scheduler section it read at the start of _sync_jobs_from_settings
\* (live: its jobs mapping is still the one the settings hold), and the
\* number of calls it has made
VARIABLES tpc, tsnap, tcalls

raceVars == <<tpc, tsnap, tcalls>>

\* Database and the storage engine under it: local[t] is the connection in
\* thread t's threading.local slot (0 for none), uses the (connection,
\* thread) pairs of every use of a connection, closedConns the connections
\* closed, nextConn the next connection, lockHolder the connection that holds
\* the engine's write lock (0 for none), pending the write of the open
\* transaction of each connection, committed the durable writes, dpc where
\* each thread is inside execute, dresult how its last call ended, writes
\* the number of statements it has run
VARIABLES local, uses, closedConns, nextConn, lockHolder, pending, committed,
          dpc, dresult, writes

dbVars == <<local, uses, closedConns, nextConn, lockHolder, pending,
            committed, dpc, dresult, writes>>

\* SettingsManager as objects: the mappings that exist, the object that is
\* self._data, the settings file, the mapping a caller of get_section
\* holds, the number of calls made, the last call, and what the last
\* manager constructed on a path without a file has loaded
VARIABLES objects, data_root, persisted, held, storeOps, lastStore, fresh

storeVars == <<objects, data_root, persisted, held, storeOps, lastStore,
               fresh>>

\* the state of the parts a specification does not run
moreVars == <<raceVars, dbVars, storeVars>>

vars == <<hostVars, batchVars, schedVars, logVars, cfgVars, timedVars,
          moreVars>>

\* leaving the loop: the finally clause closes the database connection
Leave(kind) ==
    /\ hpc' = "stopped"
    /\ exitKind' = kind
    /\ dbOpen' = FALSE

\* run: message = self.read_message(); if not message: break
RunRead ==
    /\ hpc = "read"
    /\ LET r == read_message(stream, rpos + 1)
       IN /\ lastRead' = IF r.size >= 0 THEN r.size ELSE lastRead
          /\ rpos' = IF rpos < Len(stream) THEN rpos + 1 ELSE rpos
          /\ IF r.outcome = "raise"
             THEN Leave("error") /\ UNCHANGED message
             ELSE IF r.outcome = "none" \/ Falsy(r.message)
             THEN Leave("eof") /\ UNCHANGED message
             ELSE /\ message' = r.message
                  /\ hpc' = "handle"
                  /\ UNCHANGED <<exitKind, dbOpen>>
    /\ UNCHANGED <<stream, response, stdout, handled, raisedAt>>
    /\ UNCHANGED batchVars
    /\ UNCHANGED <<schedVars, timedVars, logVars, cfgVars, moreVars>>

\* the routed handler of a well-formed request raised
HandlerRaises(request, behaviour) ==
    /\ request.kind = "obj"
    /\ Get(request, "method").kind = "str"
    /\ Route(Get(request, "method").segs, behaviour).what = "handler error"

\* run: response = self.handle_request(message)
RunHandle ==
    /\ hpc = "handle"
    /\ \E behaviour \in {"return", "raise"} :
         LET h == handle_request(message, behaviour)
         IN /\ handled' = handled \cup {rpos}
            /\ raisedAt' = IF HandlerRaises(message, behaviour)
                           THEN raisedAt \cup {rpos} ELSE raisedAt
            /\ IF h.propagates
               THEN Leave("error") /\ UNCHANGED response
               ELSE /\ response' = h.response
                    /\ hpc' = "send"
                    /\ UNCHANGED <<exitKind, dbOpen>>
    /\ UNCHANGED <<stream, rpos, message, stdout, lastRead>>
    /\ UNCHANGED batchVars
    /\ UNCHANGED <<schedVars, timedVars, logVars, cfgVars, moreVars>>

\* run: self.send_message(response)
RunSend ==
    /\ hpc = "send"
    /\ stdout' = Append(stdout, response)
    /\ hpc' = "read"
    /\ UNCHANGED <<stream, rpos, message, response, exitKind, dbOpen,
                   lastRead, handled, raisedAt>>
    /\ UNCHANGED batchVars
    /\ UNCHANGED <<schedVars, timedVars, logVars, cfgVars, moreVars>>

HostNext == RunRead \/ RunHandle \/ RunSend

\* ------------------------------------------------------------------------
\* Event log: the sync_events table and record_event
\* (backend/services/event_service.py)
\* ------------------------------------------------------------------------
\* record_event calls over a run
MaxEvents == 2

\* hours the clock advances over a run
MaxClock == 1

\* json.dumps(payload) if payload is not None else None, and None for a
\* payload json.dumps rejects: the text stored in the payload column
payload_json(payload) == IF payload = "dict" THEN "text" ELSE "NULL"

\* get_events: json.loads of a stored payload; a NULL payload stays None
payload_loads(stored) == IF stored = "text" THEN "dict" ELSE "None"

\* a row of sync_events
Row(id, e, payload, created_at) ==
    [id |-> id, entity_type |-> e.entity_type, entity_id |-> e.entity_id,
     action |-> e.action, source |-> e.source, payload |-> payload,
     created_at |-> created_at]

NoEvent ==
    [entity_type |-> "", entity_id |-> 0, action |-> "", source |-> "",
     payload |-> "None"]

NoRow == Row(0, NoEvent, "NULL", 0)

\* arguments of the record_event calls of the model: a dispatcher-side
\* event, and a scheduler-side event whose payload cannot be encoded
EventInputs ==
    { [entity_type |-> "account", entity_id |-> 1, action |-> "created",
       source |-> "backend", payload |-> "dict"],
      [entity_type |-> "job", entity_id |-> 0, action |-> "ran",
       source |-> "scheduler", payload |-> "set"] }

\* the id the table gives a new row: one more than the largest id it has
\* ever given (seq), whatever rows are left
NextRowId(rows, seq) == seq + 1

\* server-assigned created_at of a new row
CurrentTimestamp(t) == t

\* record_event on a table whose new row takes the id after the largest
\* id still stored
record_event_RowidReuse(rows, seq, t, e) ==
    LET id == IF rows = {} THEN 1
              ELSE (CHOOSE r \in rows : \A q \in rows : q.id <= r.id).id + 1
        row == Row(id, e, payload_json(e.payload), CurrentTimestamp(t))
    IN [rows |-> rows \cup {row}, seq |-> id, id |-> id, row |-> row]

\* record_event writing INSERT OR REPLACE over the event of the same entity
record_event_Upsert(rows, seq, t, e) ==
    LET id == NextRowId(rows, seq)
        row == Row(id, e, payload_json(e.payload), CurrentTimestamp(t))
        kept == { r \in rows : \/ r.entity_type # e.entity_type
                               \/ r.entity_id # e.entity_id }
    IN [rows |-> kept \cup {row}, seq |-> id, id |-> id, row |-> row]

\* record_event: one INSERT, committed; returns cursor.lastrowid
record_event(rows, seq, t, e) ==
    LET id == NextRowId(rows, seq)
        row == Row(id, e, payload_json(e.payload), CurrentTimestamp(t))
    IN [rows |-> rows \cup {row}, seq |-> id, id |-> id, row |-> row]

\* the event the collaborator records for item n once its statement is
\* committed: AccountService.create / delete, CardsService.create
ItemEvent(op, n) ==
    [entity_type |-> IF op = "create_cards" THEN "card" ELSE "account",
     entity_id |-> n,
     action |-> IF op = "delete_accounts" THEN "deleted" ELSE "created",
     source |-> "backend", payload |-> "dict"]

\* the event of a finished bulk call: entity_id is the batch id, the
\* payload is the result
BatchEvent(op, batch_id) ==
    [entity_type |-> "batch", entity_id |-> batch_id, action |-> op,
     source |-> "backend", payload |-> "dict"]

\* _emit_event of the collaborators: record_event inside try/except
\* Exception; fails: the INSERT raises.  (The single storage fault of a run
\* is spent on a write of the bulk call itself: BatchItem passes FALSE.)
_emit_event(rows, seq, t, e, fails) ==
    IF fails THEN [rows |-> rows, seq |-> seq, raised |-> FALSE]
    ELSE LET r == record_event(rows, seq, t, e)
         IN [rows |-> r.rows, seq |-> r.seq, raised |-> FALSE]

\* _emit_batch_event without its try/except
_emit_batch_event_NoCatch(rows, seq, t, e, fails) ==
    IF fails THEN [rows |-> rows, seq |-> seq, raised |-> TRUE]
    ELSE LET r == record_event(rows, seq, t, e)
         IN [rows |-> r.rows, seq |-> r.seq, raised |-> FALSE]

\* _emit_batch_event (an event service being attached): record_event
\* inside try/except Exception
_emit_batch_event(rows, seq, t, e, fails) ==
    IF fails THEN [rows |-> rows, seq |-> seq, raised |-> FALSE]
    ELSE LET r == record_event(rows, seq, t, e)
         IN [rows |-> r.rows, seq |-> r.seq, raised |-> FALSE]

\* ------------------------------------------------------------------------
\* BatchService: calls, the batch_operations table and its readers
\* ------------------------------------------------------------------------
\* local state of the batch call in progress
IdleCall ==
    [op |-> "none", items |-> <<>>, batch_id |-> 0, idx |-> 0, count |-> 0,
     failed_count |-> 0, errors |-> <<>>, email_bound |-> FALSE,
     committed |-> 0]

\* reply: what the latest step handed to a poller of the store; NoReply
\* when the latest step was not a read
NoReply == [kind |-> "none"]

\* how a call ended: outcome "returned" with the counts and errors of the
\* result it returned, or "raised"; batch_id 0 when no record was created
Ended(c, outcome) ==
    [batch_id |-> c.batch_id, op |-> c.op, outcome |-> outcome,
     total |-> Len(c.items), succeeded |-> c.committed,
     count |-> c.count, failed |-> c.failed_count, errors |-> c.errors]

\* A write to the store may raise (locked or unwritable store).  Fault
\* model: a single storage fault per run; faults records that it happened.
MayFail == IF faults THEN {FALSE} ELSE BOOLEAN

\* items submitted so far in the run
RECURSIVE SumTotal(_)
SumTotal(table) ==
    IF table = <<>> THEN 0
    ELSE table[1].total_items + SumTotal(Tail(table))

Used == SumTotal(batch_operations)

\* batch_*: entry of a bulk call up to the per-item loop: the call creates
\* its record.  (A call that raises before that point, on a missing items
\* argument or a failing INSERT, creates no record and changes nothing.)
BatchStart ==
    /\ bpc = "idle"
    /\ calls < MaxCalls
    /\ calls' = calls + 1
    /\ now' = now + 1
    /\ \E op \in OperationTypes :
         \E items \in SeqsUpTo(ItemKinds(op), MaxItems - Used) :
            /\ batch_operations' =
                  _create_batch_operation(batch_operations, op, Len(items), now)
            /\ call' = [IdleCall EXCEPT
                           !.op = op, !.items = items,
                           !.batch_id = Len(batch_operations) + 1]
    /\ bpc' = "loop"
    /\ reply' = NoReply
    /\ UNCHANGED <<lastEnded, faults, store, events>>
    /\ UNCHANGED hostVars
    /\ UNCHANGED <<schedVars, timedVars, logVars, cfgVars, moreVars>>

\* the progress writes an iteration attempts: inside the try block /
\* inside the except block
TriesWrite1(op, kind) == ItemOutcome(op, kind) = "created"

TriesWrite2(op, kind, c, w1fails) ==
    /\ ItemOutcome(op, kind) # "validation"
    /\ ItemOutcome(op, kind) = "created" => w1fails
    /\ ItemOutcome(op, kind) = "raises_early" => c.email_bound

\* batch_*: one iteration of the per-item loop
BatchItem ==
    /\ bpc = "loop"
    /\ call.idx < Len(call.items)
    /\ \E w1fails, w2fails \in BOOLEAN :
         LET n == call.idx + 1
             kind == call.items[n]
             r == ProcessItem(call.op, kind, call, n, w1fails, w2fails)
             em == IF ItemOutcome(call.op, kind) = "created"
                   THEN _emit_event(sync_events, sqlite_sequence, clock,
                                    ItemEvent(call.op, n), FALSE)
                   ELSE [rows |-> sync_events, seq |-> sqlite_sequence,
                         raised |-> FALSE]
             c == [call EXCEPT
                      !.idx = n,
                      !.count = r.count,
                      !.failed_count = r.failed_count,
                      !.errors = r.errors,
                      !.email_bound = r.email_bound,
                      !.committed =
                          IF ItemOutcome(call.op, kind) = "created"
                          THEN @ + 1 ELSE @]
         IN /\ w1fails => TriesWrite1(call.op, kind)
            /\ w2fails => TriesWrite2(call.op, kind, call, w1fails)
            /\ ~ (w1fails /\ w2fails)
            /\ (w1fails \/ w2fails) => ~ faults
            /\ faults' = (faults \/ w1fails \/ w2fails)
            /\ sync_events' = em.rows
            /\ sqlite_sequence' = em.seq
            /\ store' =
                  LET done == IF ItemOutcome(call.op, kind) = "created"
                              THEN execute(store, <<call.batch_id, n>>)
                              ELSE store
                  IN IF ItemOutcome(call.op, kind) = "raises"
                        \/ w1fails \/ w2fails
                     THEN execute_raising(done, call.batch_id)
                     ELSE done
            /\ batch_operations' =
                  IF r.wrote
                  THEN _update_batch_progress(batch_operations, call.batch_id,
                                              r.count, r.failed_count)
                  ELSE batch_operations
            /\ IF r.raised
               THEN /\ lastEnded' = Ended(c, "raised")
                    /\ call' = IdleCall
                    /\ bpc' = "idle"
               ELSE /\ call' = c
                    /\ UNCHANGED <<lastEnded, bpc>>
    /\ reply' = NoReply
    /\ UNCHANGED <<calls, now, events>>
    /\ UNCHANGED <<clock, issued, cursor, received, prevList, gap, lastList,
                   sinceList, lastRecorded, lastPrune>>
    /\ UNCHANGED hostVars
    /\ UNCHANGED <<schedVars, timedVars, cfgVars, moreVars>>

\* batch_*: after the loop: _complete_batch_operation, the result,
\* _emit_batch_event, return.  With an event service attached the call
\* appends one event to sync_events; when the append raises, the exception
\* is caught and the result returned.
BatchFinish ==
    /\ bpc = "loop"
    /\ call.idx = Len(call.items)
    /\ \E writeFails, eventFails \in MayFail :
         /\ ~ (writeFails /\ eventFails)
         /\ faults' = (faults \/ writeFails \/ eventFails)
         /\ IF writeFails
            THEN /\ lastEnded' = Ended(call, "raised")
                 /\ store' = execute_raising(store, call.batch_id)
                 /\ UNCHANGED <<batch_operations, events, sync_events,
                                sqlite_sequence>>
            ELSE LET em == _emit_batch_event(sync_events, sqlite_sequence,
                               clock, BatchEvent(call.op, call.batch_id),
                               eventFails)
                 IN /\ batch_operations' =
                          _complete_batch_operation(batch_operations,
                              call.batch_id, FinalStatus(call.failed_count),
                              call.errors, now)
                    /\ lastEnded' = Ended(call, IF em.raised THEN "raised"
                                                ELSE "returned")
                    /\ sync_events' = em.rows
                    /\ sqlite_sequence' = em.seq
                    /\ IF eventFails
                       THEN /\ store' = execute_raising(store, call.batch_id)
                            /\ UNCHANGED events
                       ELSE /\ events' = events + 1
                            /\ UNCHANGED store
    /\ call' = IdleCall
    /\ bpc' = "idle"
    /\ reply' = NoReply
    /\ UNCHANGED <<calls, now>>
    /\ UNCHANGED <<clock, issued, cursor, received, prevList, gap, lastList,
                   sinceList, lastRecorded, lastPrune>>
    /\ UNCHANGED hostVars
    /\ UNCHANGED <<schedVars, timedVars, cfgVars, moreVars>>

\* a poller calls get_batch_progress.  A read changes nothing but reply, so
\* reads are taken from the states a step of the engine has left: a read that
\* follows another read gives the state the later read gives alone.  While
\* a call is in its loop the record polled is the one of that call: a call
\* writes the record of its own batch_id only, so a read of another record
\* (or of an unknown id) gives then what it gives once the call has ended.
GetBatchProgress ==
    /\ reply = NoReply
    /\ \E b \in 1..(Len(batch_operations) + 1) :
         /\ bpc = "loop" => b = call.batch_id
         /\ reply' = [kind |-> "progress",
                      value |-> get_batch_progress(batch_operations, b)]
    /\ UNCHANGED <<batch_operations, bpc, call, calls, lastEnded, now, faults,
                   store, events>>
    /\ UNCHANGED hostVars
    /\ UNCHANGED <<schedVars, timedVars, logVars, cfgVars, moreVars>>

\* get_batch_history(self, limit: int = 20)
DefaultLimit == 20

\* a poller calls get_batch_history (taken as the progress read is).  The
\* rows and their order do not change inside the loop of a call: the read is
\* taken when the call has created its record and between calls.
GetBatchHistory ==
    /\ reply = NoReply
    /\ bpc = "loop" => call.idx = 0
    /\ \E limit \in {1, DefaultLimit} :
         \E h \in get_batch_history(batch_operations, limit) :
            reply' = [kind |-> "history", value |-> h]
    /\ UNCHANGED <<batch_operations, bpc, call, calls, lastEnded, now, faults,
                   store, events>>
    /\ UNCHANGED hostVars
    /\ UNCHANGED <<schedVars, timedVars, logVars, cfgVars, moreVars>>

BatchNext ==
    \/ BatchStart
    \/ BatchItem
    \/ BatchFinish
    \/ GetBatchProgress
    \/ GetBatchHistory

\* ------------------------------------------------------------------------
\* SchedulerService and the scheduler section of the settings
\* ------------------------------------------------------------------------
JobIds == {"auto_renew_trials", "cleanup"}

\* an optional argument: None, or a value
NoneBool == [some |-> FALSE, v |-> FALSE]

NoneInt == [some |-> FALSE, v |-> 0]

Some(v) == [some |-> TRUE, v |-> v]

\* a job's entry in the "jobs" mapping of the scheduler section;
\* present FALSE: the mapping has no such key
NoJob ==
    [present |-> FALSE, enabled |-> FALSE, interval_minutes |-> 0,
     description |-> ""]

JobConfig(enabled, interval_minutes, description) ==
    [present |-> TRUE, enabled |-> enabled,
     interval_minutes |-> interval_minutes, description |-> description]

\* SettingsManager.DEFAULTS["scheduler"], restricted to the jobs of the model
DEFAULTS ==
    [enabled |-> TRUE,
     jobs |-> [j \in JobIds |->
                  IF j = "auto_renew_trials" THEN JobConfig(FALSE, 60, "")
                  ELSE NoJob]]

\* max(1, int(n))
AtLeastOne(n) == IF n < 1 THEN 1 ELSE n

\* an entry of _job_factories; registered FALSE: no such key
NoFactory == [registered |-> FALSE, default_interval |-> 0, description |-> ""]

Factory(default_interval, description) ==
    [registered |-> TRUE, default_interval |-> AtLeastOne(default_interval),
     description |-> description]

\* a registration that writes the caller's defaults over a stored entry
SeedJob_Overwrite(s, job_id, default_interval, description) ==
    [s EXCEPT !.jobs[job_id] =
        JobConfig(TRUE, AtLeastOne(default_interval), description)]

\* register_job: defaults are seeded when the settings have no entry yet
SeedJob(s, job_id, default_interval, description) ==
    IF s.jobs[job_id].present THEN s
    ELSE [s EXCEPT !.jobs[job_id] =
             JobConfig(TRUE, AtLeastOne(default_interval), description)]

\* a global switch that also rewrites the enabled flag of every job
update_enabled_AllJobs(s, enabled) ==
    [enabled |-> enabled,
     jobs |-> [j \in JobIds |->
                  IF s.jobs[j].present
                  THEN [s.jobs[j] EXCEPT !.enabled = enabled]
                  ELSE s.jobs[j]]]

\* set_enabled: update_section("scheduler", {"enabled": bool(enabled)});
\* the merge keeps every key the update does not name
update_enabled(s, enabled) == [s EXCEPT !.enabled = enabled]

\* update_job_config that never raises
UnknownJob_Never(s, job_id) == FALSE

\* update_job_config: data = jobs.get(job_id, {}).copy(); "if not data"
UnknownJob(s, job_id) == ~ s.jobs[job_id].present

\* update_job_config on a job the settings know: the new entry, merged back
update_job_config(s, job_id, enabled, interval_minutes) ==
    LET data == s.jobs[job_id]
        d1 == IF enabled.some THEN [data EXCEPT !.enabled = enabled.v]
              ELSE data
        d2 == IF interval_minutes.some
              THEN [d1 EXCEPT !.interval_minutes =
                                  AtLeastOne(interval_minutes.v)]
              ELSE d1
    IN [s EXCEPT !.jobs[job_id] = d2]

\* the removal loop leaving the scheduler's timers in place
job_remove_Keep(ts, tracked) == ts

\* job.remove() for every job of _scheduled_jobs: ts is the scheduler's set
\* of timers, tracked[j] the interval of the job kept under j, 0 for none
job_remove(ts, tracked) == { t \in ts : tracked[t.id] = 0 }

\* max(1, int(config.get("interval_minutes") or factory["default_interval"]))
IntervalOf(config, factory) ==
    AtLeastOne(IF config.interval_minutes # 0 THEN config.interval_minutes
               ELSE factory.default_interval)

\* the timers created with the per-job enabled flag not consulted
JobsToSchedule_AnyJob(snap, factories) ==
    { [id |-> j, interval |-> IntervalOf(snap.jobs[j], factories[j])] :
        j \in { k \in JobIds : snap.jobs[k].present
                                /\ factories[k].registered } }

\* the timers the second loop of _sync_jobs_from_settings creates
JobsToSchedule(snap, factories) ==
    { [id |-> j, interval |-> IntervalOf(snap.jobs[j], factories[j])] :
        j \in { k \in JobIds : snap.jobs[k].present
                                /\ snap.jobs[k].enabled
                                /\ factories[k].registered } }

\* scheduler.add_job(..., id=job_id, replace_existing=True)
add_job(ts, t) == { u \in ts : u.id # t.id } \cup {t}

RECURSIVE AddAll(_, _)
AddAll(ts, new) ==
    IF new = {} THEN ts
    ELSE LET t == CHOOSE x \in new : TRUE
         IN AddAll(add_job(ts, t), new \ {t})

\* timers whose first run is at their creation
FirstRun_Immediately(left, new) ==
    [j \in JobIds |-> IF \E t \in new : t.id = j THEN 0 ELSE left[j]]

\* add_job(_safe_wrapper, trigger=IntervalTrigger(minutes=interval), ...):
\* the first run of a new timer is one interval after its creation
FirstRun(left, new) ==
    [j \in JobIds |->
        IF \E t \in new : t.id = j
        THEN (CHOOSE t \in new : t.id = j).interval
        ELSE left[j]]

\* add_job(..., max_instances=1)
MaxInstances == 1

\* a due timer handed to the executor with no limit on running instances
submit_job_NoLimit(inst, job_id) ==
    [instances |-> [inst EXCEPT ![job_id] = @ + 1], result |-> "submitted"]

\* a due timer of job_id is handed to the executor: the run is skipped when
\* max_instances runs of that job id are in flight
submit_job(inst, job_id) ==
    IF inst[job_id] >= MaxInstances
    THEN [instances |-> inst, result |-> "skipped"]
    ELSE [instances |-> [inst EXCEPT ![job_id] = @ + 1],
          result |-> "submitted"]

\* the wrapper without its try/except
_safe_wrapper_NoCatch(raises) == IF raises THEN "propagated" ELSE "returned"

\* _safe_wrapper: how a run of the callback ends
_safe_wrapper(raises) == IF raises THEN "caught" ELSE "returned"

Call(op, job, arg, raised) ==
    [op |-> op, job |-> job, arg |-> arg, raised |-> raised]

\* defaults a caller registers a job with
RegisterIntervals == {0, 10}

\* register_job(job_id, callback, default_interval=..., description=...)
RegisterJob ==
    /\ spc = "idle"
    /\ \E j \in JobIds, di \in RegisterIntervals :
         /\ _job_factories' = [_job_factories EXCEPT ![j] = Factory(di, j)]
         /\ settings' = SeedJob(settings, j, di, j)
         /\ lastCall' = Call("register_job", j, "", FALSE)
    /\ UNCHANGED <<_scheduled_jobs, timers, instances, started, spc, snapshot,
                   lastEvent, escaped>>
    /\ UNCHANGED <<hostVars, batchVars, logVars, cfgVars, moreVars>>
    /\ UNCHANGED timedVars

\* start(): scheduler.start() unless running, then _sync_jobs_from_settings
\* up to its read of the settings
Start ==
    /\ spc = "idle"
    /\ started' = TRUE
    /\ snapshot' = settings
    /\ spc' = "cancel"
    /\ lastCall' = Call("start", "", "", FALSE)
    /\ UNCHANGED <<settings, _job_factories, _scheduled_jobs, timers,
                   instances, lastEvent, escaped>>
    /\ UNCHANGED <<hostVars, batchVars, logVars, cfgVars, moreVars>>
    /\ UNCHANGED timedVars

\* refresh()
Refresh ==
    /\ spc = "idle"
    /\ snapshot' = settings
    /\ spc' = "cancel"
    /\ lastCall' = Call("refresh", "", "", FALSE)
    /\ UNCHANGED <<settings, _job_factories, _scheduled_jobs, timers,
                   instances, started, lastEvent, escaped>>
    /\ UNCHANGED <<hostVars, batchVars, logVars, cfgVars, moreVars>>
    /\ UNCHANGED timedVars

\* set_enabled(enabled)
SetEnabled ==
    /\ spc = "idle"
    /\ \E e \in BOOLEAN :
         /\ settings' = update_enabled(settings, e)
         /\ lastCall' = Call("set_enabled", "", IF e THEN "True" ELSE "False",
                             FALSE)
    /\ snapshot' = settings'
    /\ spc' = "cancel"
    /\ UNCHANGED <<_job_factories, _scheduled_jobs, timers, instances,
                   started, lastEvent, escaped>>
    /\ UNCHANGED <<hostVars, batchVars, logVars, cfgVars, moreVars>>
    /\ UNCHANGED timedVars

\* update_job_config(job_id, enabled=..., interval_minutes=...): ValueError
\* for a job the settings do not know
UpdateJobConfig ==
    /\ spc = "idle"
    /\ \E j \in JobIds,
          en \in {NoneBool, Some(TRUE), Some(FALSE)},
          iv \in {NoneInt, Some(0), Some(5)} :
         IF UnknownJob(settings, j)
         THEN /\ lastCall' = Call("update_job_config", j, "", TRUE)
              /\ UNCHANGED <<settings, snapshot, spc>>
         ELSE /\ settings' = update_job_config(settings, j, en, iv)
              /\ snapshot' = settings'
              /\ spc' = "cancel"
              /\ lastCall' = Call("update_job_config", j, "", FALSE)
    /\ UNCHANGED <<_job_factories, _scheduled_jobs, timers, instances,
                   started, lastEvent, escaped>>
    /\ UNCHANGED <<hostVars, batchVars, logVars, cfgVars, moreVars>>
    /\ UNCHANGED timedVars

\* _sync_jobs_from_settings: the first loop, and the return when the
\* scheduler is disabled
SyncCancel ==
    /\ spc = "cancel"
    /\ timers' = job_remove(timers, _scheduled_jobs)
    /\ _scheduled_jobs' = [j \in JobIds |-> 0]
    /\ countdown' = [j \in JobIds |->
                        IF \E t \in timers' : t.id = j THEN countdown[j]
                        ELSE 0]
    /\ sinceSync' = IF snapshot.enabled THEN sinceSync ELSE 0
    /\ UNCHANGED minute
    /\ spc' = IF snapshot.enabled THEN "add" ELSE "idle"
    /\ UNCHANGED <<settings, _job_factories, instances, started, snapshot,
                   lastCall, lastEvent, escaped>>
    /\ UNCHANGED <<hostVars, batchVars, logVars, cfgVars, moreVars>>

\* _sync_jobs_from_settings: the second loop
SyncAdd ==
    /\ spc = "add"
    /\ LET new == JobsToSchedule(snapshot, _job_factories)
       IN /\ timers' = AddAll(timers, new)
          /\ _scheduled_jobs' =
                [j \in JobIds |->
                    IF \E t \in new : t.id = j
                    THEN (CHOOSE t \in new : t.id = j).interval
                    ELSE _scheduled_jobs[j]]
          /\ countdown' = FirstRun(countdown, new)
    /\ sinceSync' = 0
    /\ UNCHANGED minute
    /\ spc' = "idle"
    /\ UNCHANGED <<settings, _job_factories, instances, started, snapshot,
                   lastCall, lastEvent, escaped>>
    /\ UNCHANGED <<hostVars, batchVars, logVars, cfgVars, moreVars>>

\* a timer of the started scheduler comes due
Fire ==
    /\ started
    /\ \E t \in timers :
         LET r == submit_job(instances, t.id)
         IN /\ instances' = r.instances
            /\ lastEvent' = [kind |-> r.result, job |-> t.id]
    /\ UNCHANGED <<settings, _job_factories, _scheduled_jobs, timers, started,
                   spc, snapshot, lastCall, escaped>>
    /\ UNCHANGED <<hostVars, batchVars, logVars, cfgVars, moreVars>>
    /\ UNCHANGED timedVars

\* a run of _safe_wrapper(callback, job_id) ends
JobEnds ==
    /\ \E j \in JobIds, raises \in BOOLEAN :
         /\ instances[j] > 0
         /\ instances' = [instances EXCEPT ![j] = @ - 1]
         /\ lastEvent' = [kind |-> _safe_wrapper(raises), job |-> j]
         /\ escaped' = (escaped \/ _safe_wrapper(raises) = "propagated")
    /\ UNCHANGED <<settings, _job_factories, _scheduled_jobs, timers, started,
                   spc, snapshot, lastCall>>
    /\ UNCHANGED <<hostVars, batchVars, logVars, cfgVars, moreVars>>
    /\ UNCHANGED timedVars

\* the threads that call set_enabled and update_job_config
Threads == {"t1", "t2"}

\* calls a thread makes
MaxThreadCalls == 1

NoSnapshot == [enabled |-> FALSE, jobs |-> DEFAULTS.jobs, live |-> FALSE]

\* a mapping a thread holds is the settings' own jobs mapping until
\* update_section stores a merged copy in its place; update_job_config
\* assigns the new entry into that mapping (jobs[job_id] = data) before
\* update_section runs, so every holder of it sees the entry
Mutated(snaps, jobs) ==
    [t \in Threads |->
        IF snaps[t].live THEN [snaps[t] EXCEPT !.jobs = jobs, !.live = FALSE]
        ELSE snaps[t]]

\* set_enabled up to its call of _sync_jobs_from_settings: update_section
\* merges {"enabled": ...} and keeps the jobs mapping it holds
ThreadSetEnabled(t) ==
    /\ tpc[t] = "idle"
    /\ tcalls[t] < MaxThreadCalls
    /\ \E e \in BOOLEAN : settings' = update_enabled(settings, e)
    /\ tpc' = [tpc EXCEPT ![t] = "read"]
    /\ tcalls' = [tcalls EXCEPT ![t] = @ + 1]
    /\ UNCHANGED <<tsnap, timers, _scheduled_jobs>>
    /\ UNCHANGED <<_job_factories, instances, started, spc, snapshot,
                   lastCall, lastEvent, escaped>>
    /\ UNCHANGED <<hostVars, batchVars, logVars, cfgVars, timedVars, dbVars,
                   storeVars>>

\* update_job_config up to its call of _sync_jobs_from_settings: the with
\* self._lock block
ThreadUpdateJobConfig(t) ==
    /\ tpc[t] = "idle"
    /\ tcalls[t] < MaxThreadCalls
    /\ tcalls' = [tcalls EXCEPT ![t] = @ + 1]
    /\ \E j \in JobIds, en \in {NoneBool, Some(TRUE), Some(FALSE)},
          iv \in {NoneInt, Some(5)} :
         IF UnknownJob(settings, j)
         THEN UNCHANGED <<settings, tpc, tsnap>>
         ELSE /\ settings' = update_job_config(settings, j, en, iv)
              /\ tsnap' = Mutated(tsnap, settings'.jobs)
              /\ tpc' = [tpc EXCEPT ![t] = "read"]
    /\ UNCHANGED <<timers, _scheduled_jobs>>
    /\ UNCHANGED <<_job_factories, instances, started, spc, snapshot,
                   lastCall, lastEvent, escaped>>
    /\ UNCHANGED <<hostVars, batchVars, logVars, cfgVars, timedVars, dbVars,
                   storeVars>>

\* _sync_jobs_from_settings, the two statements before "with self._lock":
\* get_section("scheduler") and the read of its enabled flag
ThreadReadSettings(t) ==
    /\ tpc[t] = "read"
    /\ tsnap' = [tsnap EXCEPT ![t] = [enabled |-> settings.enabled,
                                       jobs |-> settings.jobs,
                                       live |-> TRUE]]
    /\ tpc' = [tpc EXCEPT ![t] = "rebuild"]
    /\ UNCHANGED <<settings, timers, _scheduled_jobs, tcalls>>
    /\ UNCHANGED <<_job_factories, instances, started, spc, snapshot,
                   lastCall, lastEvent, escaped>>
    /\ UNCHANGED <<hostVars, batchVars, logVars, cfgVars, timedVars, dbVars,
                   storeVars>>

\* _sync_jobs_from_settings, the with self._lock block: both loops, from
\* the section the thread read
ThreadRebuild(t) ==
    /\ tpc[t] = "rebuild"
    /\ LET kept == job_remove(timers, _scheduled_jobs)
           new == IF tsnap[t].enabled
                  THEN JobsToSchedule(tsnap[t], _job_factories)
                  ELSE {}
       IN /\ timers' = AddAll(kept, new)
          /\ _scheduled_jobs' =
                [j \in JobIds |->
                    IF \E x \in new : x.id = j
                    THEN (CHOOSE x \in new : x.id = j).interval
                    ELSE 0]
    /\ tpc' = [tpc EXCEPT ![t] = "idle"]
    /\ UNCHANGED <<settings, tsnap, tcalls>>
    /\ UNCHANGED <<_job_factories, instances, started, spc, snapshot,
                   lastCall, lastEvent, escaped>>
    /\ UNCHANGED <<hostVars, batchVars, logVars, cfgVars, timedVars, dbVars,
                   storeVars>>

RaceSetEnabled == \E t \in Threads : ThreadSetEnabled(t)

RaceUpdateJobConfig == \E t \in Threads : ThreadUpdateJobConfig(t)

RaceReadSettings == \E t \in Threads : ThreadReadSettings(t)

RaceRebuild == \E t \in Threads : ThreadRebuild(t)

\* a step of one of the configuring threads
RaceNext ==
    \/ RaceSetEnabled
    \/ RaceUpdateJobConfig
    \/ RaceReadSettings
    \/ RaceRebuild

\* the longest run of the clock, in minutes: a timer of the least interval
\* (one minute) comes due, the timers of longer intervals are part-way
MaxMinutes == 1

\* a minute passes with no timer due and no rebuild in progress (a rebuild
\* takes less than a minute); the timers of a scheduler that was not started
\* do not run
Minute ==
    /\ spc = "idle"
    /\ minute < MaxMinutes
    /\ \A t \in timers : started => countdown[t.id] > 0
    /\ minute' = minute + 1
    /\ sinceSync' = sinceSync + 1
    /\ countdown' = [j \in JobIds |->
                        IF started /\ countdown[j] > 0 THEN countdown[j] - 1
                        ELSE countdown[j]]
    /\ UNCHANGED schedVars
    /\ UNCHANGED <<hostVars, batchVars, logVars, cfgVars, moreVars>>

\* the timer of a job comes due when its countdown has run out; its next
\* run is one interval later
FireDue ==
    /\ started
    /\ spc = "idle"
    /\ \E t \in timers :
         LET r == submit_job(instances, t.id)
         IN /\ countdown[t.id] = 0
            /\ countdown' = [countdown EXCEPT ![t.id] = t.interval]
            /\ instances' = r.instances
            /\ lastEvent' = [kind |-> r.result, job |-> t.id]
    /\ UNCHANGED <<sinceSync, minute>>
    /\ UNCHANGED <<settings, _job_factories, _scheduled_jobs, timers, started,
                   spc, snapshot, lastCall, escaped>>
    /\ UNCHANGED <<hostVars, batchVars, logVars, cfgVars, moreVars>>

TimedNext ==
    \/ RegisterJob
    \/ Start
    \/ Refresh
    \/ SetEnabled
    \/ UpdateJobConfig
    \/ SyncCancel
    \/ SyncAdd
    \/ Minute
    \/ FireDue
    \/ JobEnds

SchedNext ==
    \/ RegisterJob
    \/ Start
    \/ Refresh
    \/ SetEnabled
    \/ UpdateJobConfig
    \/ SyncCancel
    \/ SyncAdd
    \/ Fire
    \/ JobEnds

\* ------------------------------------------------------------------------
\* Database (backend/database.py): thread-local connections
\* ------------------------------------------------------------------------
\* the execution contexts: the dispatcher thread and a scheduler job thread
Contexts == {"dispatcher", "job"}

\* statements a context runs
MaxWrites == 2

\* connections opened in a run
MaxConns == 3

\* _get_connection: if not hasattr(self._local, "conn"): sqlite3.connect
_get_connection(slots, t, next) ==
    IF slots[t] # 0 THEN [conn |-> slots[t], slots |-> slots, next |-> next]
    ELSE [conn |-> next, slots |-> [slots EXCEPT ![t] = next],
          next |-> next + 1]

\* the outcomes of cursor.execute of a writing statement on connection c:
\* "ok", "integrity" (the statement violates a constraint; the transaction
\* the sqlite3 module began for it stays open and keeps the write lock), or
\* "locked" (another connection holds the write lock and keeps it longer
\* than the busy timeout: a lock left behind by a failed statement of a
\* thread that is running no statement)
StatementOutcomes(c, holder, pcs, slots) ==
    IF holder = 0 \/ holder = c THEN {"ok", "integrity"}
    ELSE IF \E u \in Contexts : slots[u] = holder /\ pcs[u] = "idle"
    THEN {"locked"}
    ELSE {}

\* execute, first half: conn = self._get_connection(); cursor.execute(...)
DbExecute ==
    /\ \E t \in Contexts :
         LET g == _get_connection(local, t, nextConn)
         IN /\ dpc[t] = "idle"
            /\ writes[t] < MaxWrites
            /\ g.conn <= MaxConns
            /\ local' = g.slots
            /\ nextConn' = g.next
            /\ uses' = uses \cup {<<g.conn, t>>}
            /\ writes' = [writes EXCEPT ![t] = @ + 1]
            /\ \E out \in StatementOutcomes(g.conn, lockHolder, dpc, local) :
                 /\ dresult' = [dresult EXCEPT ![t] =
                                   IF out = "ok" THEN "running" ELSE out]
                 /\ dpc' = [dpc EXCEPT ![t] =
                               IF out = "ok" THEN "commit" ELSE "idle"]
                 /\ lockHolder' = IF out = "locked" THEN lockHolder
                                  ELSE g.conn
                 /\ pending' = IF out = "ok"
                               THEN pending \cup {<<g.conn, t, writes[t] + 1>>}
                               ELSE pending
    /\ UNCHANGED <<closedConns, committed>>
    /\ UNCHANGED <<hostVars, batchVars, schedVars, timedVars, logVars,
                   cfgVars, raceVars, storeVars>>

\* execute, second half: conn.commit()
DbCommit ==
    /\ \E t \in Contexts :
         /\ dpc[t] = "commit"
         /\ committed' = committed \cup
                            { <<w[2], w[3]>> : w \in { p \in pending :
                                                         p[1] = local[t] } }
         /\ pending' = { p \in pending : p[1] # local[t] }
         /\ lockHolder' = IF lockHolder = local[t] THEN 0 ELSE lockHolder
         /\ dpc' = [dpc EXCEPT ![t] = "idle"]
         /\ dresult' = [dresult EXCEPT ![t] = "ok"]
         /\ uses' = uses \cup {<<local[t], t>>}
    /\ UNCHANGED <<local, closedConns, nextConn, writes>>
    /\ UNCHANGED <<hostVars, batchVars, schedVars, timedVars, logVars,
                   cfgVars, raceVars, storeVars>>

\* close: self._local.conn.close(); del self._local.conn
close(slots, t) == [slots EXCEPT ![t] = 0]

\* close() called by a thread that holds a connection and runs no statement;
\* closing a connection ends its transaction and gives up its locks
DbClose ==
    /\ \E t \in Contexts :
         /\ dpc[t] = "idle"
         /\ local[t] # 0
         /\ local' = close(local, t)
         /\ closedConns' = closedConns \cup
                              { local[u] : u \in { v \in Contexts :
                                                      local'[v] # local[v] } }
         /\ lockHolder' = IF lockHolder \in closedConns' THEN 0
                          ELSE lockHolder
         /\ pending' = { p \in pending : p[1] \notin closedConns' }
         /\ dresult' = [dresult EXCEPT ![t] = "closed"]
    /\ UNCHANGED <<uses, nextConn, committed, dpc, writes>>
    /\ UNCHANGED <<hostVars, batchVars, schedVars, timedVars, logVars,
                   cfgVars, raceVars, storeVars>>

DbNext ==
    \/ DbExecute
    \/ DbCommit
    \/ DbClose

\* ------------------------------------------------------------------------
\* Event log (backend/services/event_service.py)
\* ------------------------------------------------------------------------
\* ORDER BY id ASC
RECURSIVE OrderById(_)
OrderById(rows) ==
    IF rows = {} THEN <<>>
    ELSE LET r == CHOOSE x \in rows : \A y \in rows : x.id <= y.id
         IN <<r>> \o OrderById(rows \ {r})

\* LIMIT n
Limit(s, n) == SubSeq(s, 1, IF Len(s) < n THEN Len(s) ELSE n)

\* the limit used when the caller's is not positive
DefaultPage == 50

\* a query without its WHERE clause
Matching_All(rows, after_id) == rows

\* SELECT ... WHERE id > ?, the clause being added only `if after_id`
Matching(rows, after_id) ==
    IF after_id.some /\ after_id.v # 0
    THEN { r \in rows : r.id > after_id.v }
    ELSE rows

\* the rows as returned: payloads decoded
Decoded(page) ==
    [i \in 1..Len(page) |-> [page[i] EXCEPT !.payload = payload_loads(@)]]

\* get_events whose last_id is None when no event is returned
get_events_ForgetCursor(rows, after_id, limit) ==
    LET lim == IF limit <= 0 THEN DefaultPage ELSE limit
        evs == Decoded(Limit(OrderById(Matching(rows, after_id)), lim))
    IN [events |-> evs,
        last_id |-> IF Len(evs) > 0 THEN Some(evs[Len(evs)].id) ELSE NoneInt]

\* get_events returning the newest matching rows
get_events_Newest(rows, after_id, limit) ==
    LET lim == IF limit <= 0 THEN DefaultPage ELSE limit
        all == OrderById(Matching(rows, after_id))
        evs == Decoded(SubSeq(all, IF Len(all) > lim THEN Len(all) - lim + 1
                                   ELSE 1, Len(all)))
    IN [events |-> evs,
        last_id |-> IF Len(evs) > 0 THEN Some(evs[Len(evs)].id) ELSE after_id]

\* get_events(after_id, limit): after_id is None (some FALSE) or an integer
get_events(rows, after_id, limit) ==
    LET lim == IF limit <= 0 THEN DefaultPage ELSE limit
        evs == Decoded(Limit(OrderById(Matching(rows, after_id)), lim))
    IN [events |-> evs,
        last_id |-> IF Len(evs) > 0 THEN Some(evs[Len(evs)].id) ELSE after_id]

\* datetime('now', '-' || keep_hours || ' hours'): NULL when the modifier is
\* not a valid one, as for a negative keep_hours ('--1 hours')
Cutoff(t, keep_hours) ==
    IF keep_hours >= 0 THEN Some(t - keep_hours) ELSE NoneInt

\* prune whose comparison is created_at <= cutoff
prune_Inclusive(rows, t, keep_hours) ==
    LET c == Cutoff(t, keep_hours)
        old == IF c.some THEN { r \in rows : r.created_at <= c.v } ELSE {}
    IN [rows |-> rows \ old, deleted |-> Cardinality(old)]

\* prune(keep_hours): DELETE ... WHERE created_at < cutoff; a comparison
\* with NULL selects no row; returns cursor.rowcount
prune(rows, t, keep_hours) ==
    LET c == Cutoff(t, keep_hours)
        old == IF c.some THEN { r \in rows : r.created_at < c.v } ELSE {}
    IN [rows |-> rows \ old, deleted |-> Cardinality(old)]

\* a remembered get_events call; called FALSE: no call yet
NoList ==
    [called |-> FALSE, after_id |-> NoneInt, limit |-> 0, events |-> <<>>,
     last_id |-> NoneInt]

\* a remembered prune call
NoPrune == [called |-> FALSE, keep_hours |-> 0, deleted |-> 0]

AfterIds == {NoneInt, Some(0), Some(1)}

Limits == {0, 1}

KeepHours == {0 - 1, 0, 1}

Ids(evs) == [i \in 1..Len(evs) |-> evs[i].id]

\* one hour passes
Tick ==
    /\ clock < MaxClock
    /\ clock' = clock + 1
    /\ UNCHANGED <<sync_events, sqlite_sequence, issued, cursor, received,
                   prevList, gap, lastList, sinceList, lastRecorded,
                   lastPrune>>
    /\ UNCHANGED <<hostVars, batchVars, schedVars, timedVars, cfgVars,
                   moreVars>>

\* record_event(...) from the dispatcher's thread or from a scheduler job
RecordEvent ==
    /\ Len(issued) < MaxEvents
    /\ \E e \in EventInputs :
         LET r == record_event(sync_events, sqlite_sequence, clock, e)
         IN /\ sync_events' = r.rows
            /\ sqlite_sequence' = r.seq
            /\ issued' = Append(issued, r.id)
            /\ lastRecorded' = r.row
    /\ sinceList' = IF sinceList = "none" THEN "record" ELSE "other"
    /\ UNCHANGED <<clock, cursor, received, prevList, gap, lastList,
                   lastPrune>>
    /\ UNCHANGED <<hostVars, batchVars, schedVars, timedVars, cfgVars,
                   moreVars>>

\* get_events(after_id, limit) by some caller.  The caller keeps the result;
\* when the call repeats its previous one (same after_id, same limit) it
\* also keeps the previous result and what was written in between
GetEvents ==
    /\ \E a \in AfterIds, l \in Limits :
         LET r == get_events(sync_events, a, l)
             repeats == /\ lastList.called
                        /\ lastList.after_id = a
                        /\ lastList.limit = l
         IN /\ lastList' = [called |-> TRUE, after_id |-> a, limit |-> l,
                            events |-> r.events, last_id |-> r.last_id]
            /\ prevList' = IF repeats THEN lastList ELSE NoList
            /\ gap' = IF repeats THEN sinceList ELSE "none"
    /\ sinceList' = "none"
    /\ UNCHANGED <<sync_events, sqlite_sequence, clock, issued, cursor,
                   received, lastRecorded, lastPrune>>
    /\ UNCHANGED <<hostVars, batchVars, schedVars, timedVars, cfgVars,
                   moreVars>>

\* a poller calls get_events with the last_id of its previous call
Poll ==
    /\ \E l \in Limits :
         LET r == get_events(sync_events, cursor, l)
         IN /\ cursor' = r.last_id
            /\ received' = received \o Ids(r.events)
    /\ UNCHANGED <<sync_events, sqlite_sequence, clock, issued, prevList,
                   gap, lastList, sinceList, lastRecorded, lastPrune>>
    /\ UNCHANGED <<hostVars, batchVars, schedVars, timedVars, cfgVars,
                   moreVars>>

\* prune(keep_hours)
Prune ==
    /\ \E k \in KeepHours :
         LET r == prune(sync_events, clock, k)
         IN /\ sync_events' = r.rows
            /\ lastPrune' = [called |-> TRUE, keep_hours |-> k,
                             deleted |-> r.deleted]
    /\ sinceList' = "other"
    /\ UNCHANGED <<sqlite_sequence, clock, issued, cursor, received,
                   prevList, gap, lastList, lastRecorded>>
    /\ UNCHANGED <<hostVars, batchVars, schedVars, timedVars, cfgVars,
                   moreVars>>

EventNext ==
    \/ Tick
    \/ RecordEvent
    \/ GetEvents
    \/ Prune

PollNext ==
    \/ Tick
    \/ RecordEvent
    \/ Poll
    \/ Prune

\* ------------------------------------------------------------------------
\* Settings store (backend/settings_manager.py)
\* ------------------------------------------------------------------------
\* update_section calls over a run
MaxUpdates == 3

\* a settings value: None, a scalar (its JSON text) or a mapping
VNull == [t |-> "null"]

Scalar(x) == [t |-> "scalar", x |-> x]

Dict(m) == [t |-> "dict", m |-> m]

\* {}
EmptyDict == [k \in {} |-> VNull]

\* dict.get(key)
DictGet(m, key) == IF key \in DOMAIN m THEN m[key] ELSE VNull

\* a merge that takes every key of incoming as it comes (dict.update)
RECURSIVE _merge_dicts_Shallow(_, _)
_merge_dicts_Shallow(base, incoming) ==
    [key \in DOMAIN base \cup DOMAIN incoming |->
        IF key \in DOMAIN incoming /\ incoming[key].t # "null"
        THEN incoming[key]
        ELSE DictGet(base, key)]

\* a merge that applies an incoming None
RECURSIVE _merge_dicts_ApplyNone(_, _)
_merge_dicts_ApplyNone(base, incoming) ==
    [key \in DOMAIN base \cup DOMAIN incoming |->
        LET base_value == DictGet(base, key)
            incoming_value == DictGet(incoming, key)
        IN IF base_value.t = "dict" /\ incoming_value.t = "dict"
           THEN Dict(_merge_dicts_ApplyNone(base_value.m, incoming_value.m))
           ELSE IF key \in DOMAIN incoming THEN incoming_value
           ELSE base_value]

\* _merge_dicts(base, incoming)
RECURSIVE _merge_dicts(_, _)
_merge_dicts(base, incoming) ==
    [key \in DOMAIN base \cup DOMAIN incoming |->
        LET base_value == DictGet(base, key)
            incoming_value == DictGet(incoming, key)
        IN IF base_value.t = "dict" /\ incoming_value.t = "dict"
           THEN Dict(_merge_dicts(base_value.m, incoming_value.m))
           ELSE IF incoming_value.t # "null" THEN incoming_value
           ELSE base_value]

\* update_section(section, updates): the new _data
update_section(d, section, updates) ==
    LET base == IF section \in DOMAIN d /\ d[section].t = "dict"
                THEN d[section].m
                ELSE EmptyDict
        merged == _merge_dicts(base, updates)
    IN [s \in DOMAIN d \cup {section} |->
           IF s = section THEN Dict(merged) ELSE d[s]]

Job(enabled, interval_minutes) ==
    Dict([enabled |-> Scalar(enabled),
          interval_minutes |-> Scalar(interval_minutes)])

\* SettingsManager.DEFAULTS with two of its three jobs
StoreDefaults ==
    [version |-> Scalar("1"),
     appearance |-> Dict([mode |-> Scalar("dark")]),
     scheduler |->
        Dict([enabled |-> Scalar("true"),
              jobs |-> Dict([refresh_accounts |-> Job("true", "30"),
                             auto_renew_trials |-> Job("false", "60")])]),
     encryption |-> Dict([enabled |-> Scalar("false"), salt |-> VNull])]

Sections == {"version", "appearance", "scheduler", "encryption", "backup"}

\* the updates callers pass in the model
Updates ==
    { [jobs |-> Dict([refresh_accounts |->
                         Dict([enabled |-> Scalar("false")])])],
      [jobs |-> Dict([refresh_accounts |->
                         Dict([enabled |-> VNull,
                               interval_minutes |-> Scalar("5")])])],
      [jobs |-> Dict([cleanup |-> Job("true", "10")])],
      [jobs |-> Scalar("off")],
      [enabled |-> VNull],
      [enabled |-> Scalar("false"), salt |-> Scalar("c2FsdA")],
      [mode |-> Scalar("light")],
      EmptyDict }

NoUpdate == [called |-> FALSE, section |-> "", updates |-> EmptyDict]

\* update_section(section, updates), with its save()
UpdateSection ==
    /\ updateCalls < MaxUpdates
    /\ \E s \in Sections, u \in Updates :
         /\ _data' = update_section(_data, s, u)
         /\ lastUpdate' = [called |-> TRUE, section |-> s, updates |-> u]
    /\ settings_file' = _data'
    /\ updateCalls' = updateCalls + 1
    /\ UNCHANGED <<hostVars, batchVars, schedVars, timedVars, logVars,
                   moreVars>>

SettingsNext ==
    \/ UpdateSection

\* ------------------------------------------------------------------------
\* SettingsManager as Python objects: which mappings are shared
\* ------------------------------------------------------------------------
\* Every mapping is an object with an identity <<n, path>>: the object that
\* call n created for key path `path` (call 0 is the class body that builds
\* DEFAULTS).  objects is the set of <<identity, content>> pairs; a content
\* maps keys to scalars, None, or references to other objects.
Ref(o) == [t |-> "ref", o |-> o]

NoObject == <<0, <<"none">>>>

DefaultsRoot == <<0, <<>>>>

Content(h, o) == (CHOOSE x \in h : x[1] = o)[2]

\* d[key] = v on the object o itself
SetItem(h, o, key, v) ==
    LET c == Content(h, o)
    IN { x \in h : x[1] # o } \cup
       { <<o, [k \in DOMAIN c \cup {key} |-> IF k = key THEN v ELSE c[k]]>> }

\* the objects of a mapping a caller passes in or json.loads builds, as call
\* n stores it under key path p
RECURSIVE Alloc(_, _, _)
Alloc(m, n, p) ==
    { <<<<n, p>>, [k \in DOMAIN m |->
                      IF m[k].t = "dict" THEN Ref(<<n, Append(p, k)>>)
                      ELSE m[k]]>> }
    \cup UNION { Alloc(m[k].m, n, Append(p, k)) :
                   k \in { j \in DOMAIN m : m[j].t = "dict" } }

\* the value of an object: the mapping with every reference followed
RECURSIVE Tree(_, _)
Tree(h, o) ==
    [k \in DOMAIN Content(h, o) |->
        LET v == Content(h, o)[k]
        IN IF v.t = "ref" THEN Dict(Tree(h, v.o)) ELSE v]

\* _merge_dicts(base, incoming) on objects: base is the object b, incoming
\* the mapping inc; the result is a new object <<n, p>>.  result[key] =
\* base_value stores the base's own nested object, not a copy.
RECURSIVE MergeObjects(_, _, _, _, _)
MergeObjects(h, b, inc, n, p) ==
    LET bc == Content(h, b)
        keys == DOMAIN bc \cup DOMAIN inc
        Both(k) == DictGet(bc, k).t = "ref" /\ DictGet(inc, k).t = "dict"
        content ==
            [k \in keys |->
                IF DictGet(inc, k).t = "dict" THEN Ref(<<n, Append(p, k)>>)
                ELSE IF DictGet(inc, k).t # "null" THEN inc[k]
                ELSE DictGet(bc, k)]
    IN { <<<<n, p>>, content>> }
       \cup UNION { IF Both(k)
                    THEN MergeObjects(h, bc[k].o, inc[k].m, n, Append(p, k))
                    ELSE Alloc(inc[k].m, n, Append(p, k)) :
                      k \in { j \in keys : DictGet(inc, j).t = "dict" } }

\* json.dumps of a value json.loads reads back: a tuple is written as an
\* array and comes back as a list
RECURSIVE Encoded(_)
Encoded(m) ==
    [k \in DOMAIN m |->
        IF m[k].t = "dict" THEN Dict(Encoded(m[k].m))
        ELSE IF m[k] = Scalar("(1, 2)") THEN Scalar("[1, 2]")
        ELSE m[k]]

\* the settings file: absent, or its content
Absent == [kind |-> "absent"]

\* save: json.dumps(self._data, ...) written to settings_path
json_dumps(m) == [kind |-> "json", val |-> Dict(Encoded(m))]

\* contents an editor or a fault leaves in the file: text that is not JSON,
\* bytes that are not UTF-8, JSON that is not an object, an object whose
\* scheduler section is a number, an object with a part of the scheduler
\* section
FileContents ==
    { [kind |-> "garbage"],
      [kind |-> "undecodable"],
      [kind |-> "json", val |-> Scalar("[]")],
      [kind |-> "json", val |-> Dict([scheduler |-> Scalar("5")])],
      [kind |-> "json",
       val |-> Dict([scheduler |-> Dict([enabled |-> Scalar("false")])])] }

\* reload up to the merge: loaded, or the exception that leaves reload.
\* json.loads raising JSONDecodeError gives {}; read_text raising
\* UnicodeDecodeError is not caught; a JSON value that is not an object
\* reaches _merge_dicts, whose incoming.keys() raises AttributeError
Loaded(content) ==
    IF content.kind \in {"absent", "garbage"}
    THEN [raised |-> FALSE, m |-> EmptyDict]
    ELSE IF content.kind = "undecodable"
    THEN [raised |-> TRUE, m |-> EmptyDict]
    ELSE IF content.val.t = "dict"
    THEN [raised |-> FALSE, m |-> content.val.m]
    ELSE [raised |-> TRUE, m |-> EmptyDict]

\* what a SettingsManager constructed on this file would hold
ReloadTree(h, content) ==
    _merge_dicts(Tree(h, DefaultsRoot), Loaded(content).m)

StoreCall(op, raised) == [op |-> op, raised |-> raised]

\* calls on the store in a run
MaxStoreOps == 4

\* reload()
StoreReload ==
    /\ storeOps < MaxStoreOps
    /\ storeOps' = storeOps + 1
    /\ LET l == Loaded(persisted)
       IN IF l.raised
          THEN /\ lastStore' = StoreCall("reload", TRUE)
               /\ UNCHANGED <<objects, data_root>>
          ELSE /\ lastStore' = StoreCall("reload", FALSE)
               /\ objects' = objects \cup
                     MergeObjects(objects, DefaultsRoot, l.m, storeOps + 1,
                                  <<>>)
               /\ data_root' = <<storeOps + 1, <<>>>>
    /\ UNCHANGED <<persisted, held, fresh>>
    /\ UNCHANGED <<hostVars, batchVars, schedVars, timedVars, logVars,
                   cfgVars, raceVars, dbVars>>

\* the settings file is edited or damaged outside the process
EditFile ==
    /\ storeOps < MaxStoreOps
    /\ storeOps' = storeOps + 1
    /\ \E c \in FileContents : persisted' = c
    /\ lastStore' = StoreCall("edit", FALSE)
    /\ UNCHANGED <<objects, data_root, held, fresh>>
    /\ UNCHANGED <<hostVars, batchVars, schedVars, timedVars, logVars,
                   cfgVars, raceVars, dbVars>>

\* the set calls of the model
SetInputs ==
    { [key |-> "appearance", value |-> VNull],
      [key |-> "appearance", value |-> Dict([mode |-> Scalar("light")])],
      [key |-> "window", value |-> Scalar("(1, 2)")] }

\* set(key, value): self._data[key] = value; self.save()
StoreSet ==
    /\ storeOps < MaxStoreOps
    /\ storeOps' = storeOps + 1
    /\ \E i \in SetInputs :
         objects' =
            IF i.value.t = "dict"
            THEN SetItem(objects, data_root, i.key,
                         Ref(<<storeOps + 1, <<i.key>>>>))
                 \cup Alloc(i.value.m, storeOps + 1, <<i.key>>)
            ELSE SetItem(objects, data_root, i.key, i.value)
    /\ persisted' = json_dumps(Tree(objects', data_root))
    /\ lastStore' = StoreCall("set", FALSE)
    /\ UNCHANGED <<data_root, held, fresh>>
    /\ UNCHANGED <<hostVars, batchVars, schedVars, timedVars, logVars,
                   cfgVars, raceVars, dbVars>>

\* update_section(section, updates) on objects: merged, stored under the
\* section key of _data
update_section_objects(h, root, section, updates, n) ==
    LET cur == DictGet(Content(h, root), section)
        merged == IF cur.t = "ref"
                  THEN MergeObjects(h, cur.o, updates, n, <<section>>)
                  ELSE Alloc(updates, n, <<section>>)
    IN SetItem(h \cup merged, root, section, Ref(<<n, <<section>>>>))

\* the update_section calls of the model
SectionUpdates ==
    { [section |-> "appearance", updates |-> [mode |-> Scalar("light")]],
      [section |-> "scheduler", updates |-> [enabled |-> Scalar("false")]] }

\* update_section(section, updates), with its save()
StoreUpdateSection ==
    /\ storeOps < MaxStoreOps
    /\ storeOps' = storeOps + 1
    /\ \E u \in SectionUpdates :
         objects' = update_section_objects(objects, data_root, u.section,
                                           u.updates, storeOps + 1)
    /\ persisted' = json_dumps(Tree(objects', data_root))
    /\ lastStore' = StoreCall("update_section", FALSE)
    /\ UNCHANGED <<data_root, held, fresh>>
    /\ UNCHANGED <<hostVars, batchVars, schedVars, timedVars, logVars,
                   cfgVars, raceVars, dbVars>>

\* get_section(section): value.copy() if isinstance(value, dict) else {}:
\* a new mapping whose values are the values of the section themselves
get_section(h, root, section, n) ==
    LET cur == DictGet(Content(h, root), section)
    IN { <<<<n, <<"copy">>>>,
           IF cur.t = "ref" THEN Content(h, cur.o) ELSE EmptyDict>> }

\* a caller takes get_section("scheduler") and keeps the mapping
GetSection ==
    /\ storeOps < MaxStoreOps
    /\ storeOps' = storeOps + 1
    /\ objects' = objects \cup
                     get_section(objects, data_root, "scheduler",
                                 storeOps + 1)
    /\ held' = <<storeOps + 1, <<"copy">>>>
    /\ lastStore' = StoreCall("get_section", FALSE)
    /\ UNCHANGED <<data_root, persisted, fresh>>
    /\ UNCHANGED <<hostVars, batchVars, schedVars, timedVars, logVars,
                   cfgVars, raceVars, dbVars>>

\* the caller changes the mapping it holds: a top-level key
\* (section["enabled"] = False), or a key of a nested mapping
\* (section["jobs"]["cleanup"] = ...)
MutateHeld ==
    /\ storeOps < MaxStoreOps
    /\ storeOps' = storeOps + 1
    /\ held # NoObject
    /\ \/ /\ objects' = SetItem(objects, held, "enabled", Scalar("false"))
          /\ lastStore' = StoreCall("change_top", FALSE)
       \/ /\ DictGet(Content(objects, held), "jobs").t = "ref"
          /\ objects' = SetItem(objects, Content(objects, held)["jobs"].o,
                                "cleanup", Scalar("on"))
          /\ lastStore' = StoreCall("change_nested", FALSE)
    /\ UNCHANGED <<data_root, persisted, held, fresh>>
    /\ UNCHANGED <<hostVars, batchVars, schedVars, timedVars, logVars,
                   cfgVars, raceVars, dbVars>>

\* the jobs mapping register_job and update_job_config work on:
\* get_section("scheduler").get("jobs", {})
LiveJobs(h, root) ==
    LET sec == DictGet(Content(h, root), "scheduler")
    IN IF sec.t = "ref" THEN DictGet(Content(h, sec.o), "jobs") ELSE VNull

\* SchedulerService.register_job("cleanup", ...) on a store whose scheduler
\* section has a jobs mapping: jobs[job_id] = {...} when the job has no
\* entry, then update_section("scheduler", {"jobs": jobs})
StoreRegisterJob ==
    /\ storeOps < MaxStoreOps
    /\ storeOps' = storeOps + 1
    /\ LiveJobs(objects, data_root).t = "ref"
    /\ LET n == storeOps + 1
           jobs == LiveJobs(objects, data_root).o
           h1 == IF "cleanup" \in DOMAIN Content(objects, jobs) THEN objects
                 ELSE SetItem(objects, jobs, "cleanup",
                              Ref(<<n, <<"new", "cleanup">>>>))
                      \cup Alloc(Job("true", "10").m, n, <<"new", "cleanup">>)
       IN objects' = update_section_objects(h1, data_root, "scheduler",
                         [jobs |-> Dict(Tree(h1, jobs))], n)
    /\ persisted' = json_dumps(Tree(objects', data_root))
    /\ lastStore' = StoreCall("register_job", FALSE)
    /\ UNCHANGED <<data_root, held, fresh>>
    /\ UNCHANGED <<hostVars, batchVars, schedVars, timedVars, logVars,
                   cfgVars, raceVars, dbVars>>

\* SchedulerService.update_job_config("refresh_accounts",
\* interval_minutes=5) on a store that has the job: data = a copy of the
\* entry with the new interval, jobs[job_id] = data, then
\* update_section("scheduler", {"jobs": jobs})
StoreUpdateJobConfig ==
    /\ storeOps < MaxStoreOps
    /\ storeOps' = storeOps + 1
    /\ LiveJobs(objects, data_root).t = "ref"
    /\ DictGet(Content(objects, LiveJobs(objects, data_root).o),
               "refresh_accounts").t = "ref"
    /\ LET n == storeOps + 1
           jobs == LiveJobs(objects, data_root).o
           entry == Content(objects, Content(objects, jobs)["refresh_accounts"].o)
           data == [k \in DOMAIN entry \cup {"interval_minutes"} |->
                       IF k = "interval_minutes" THEN Scalar("5")
                       ELSE entry[k]]
           h1 == SetItem(objects, jobs, "refresh_accounts",
                         Ref(<<n, <<"new", "refresh_accounts">>>>))
                 \cup { <<<<n, <<"new", "refresh_accounts">>>>, data>> }
       IN objects' = update_section_objects(h1, data_root, "scheduler",
                         [jobs |-> Dict(Tree(h1, jobs))], n)
    /\ persisted' = json_dumps(Tree(objects', data_root))
    /\ lastStore' = StoreCall("update_job_config", FALSE)
    /\ UNCHANGED <<data_root, held, fresh>>
    /\ UNCHANGED <<hostVars, batchVars, schedVars, timedVars, logVars,
                   cfgVars, raceVars, dbVars>>

NotLoaded == [loaded |-> FALSE, m |-> EmptyDict]

\* SettingsManager(path) on a path that has no file: reload() with
\* loaded = {}
NewManager ==
    /\ storeOps < MaxStoreOps
    /\ storeOps' = storeOps + 1
    /\ fresh' = [loaded |-> TRUE, m |-> ReloadTree(objects, Absent)]
    /\ lastStore' = StoreCall("new_manager", FALSE)
    /\ UNCHANGED <<objects, data_root, persisted, held>>
    /\ UNCHANGED <<hostVars, batchVars, schedVars, timedVars, logVars,
                   cfgVars, raceVars, dbVars>>

StoreNext ==
    \/ StoreReload
    \/ EditFile
    \/ StoreSet
    \/ StoreUpdateSection
    \/ GetSection
    \/ MutateHeld
    \/ StoreRegisterJob
    \/ StoreUpdateJobConfig
    \/ NewManager

\* DEFAULTS as the class body builds it, and the _data of a manager
\* constructed on a path with no file
FirstObjects ==
    LET d == Alloc(StoreDefaults, 0, <<>>)
    IN d \cup MergeObjects(d, DefaultsRoot, EmptyDict, 1, <<>>)

\* the host has started on some input stream; the store is empty
Init ==
    /\ stream \in Streams
    /\ rpos = 0
    /\ hpc = "read"
    /\ message = Null
    /\ response = Null
    /\ stdout = <<>>
    /\ exitKind = "running"
    /\ dbOpen = TRUE
    /\ lastRead = 0 - 1
    /\ handled = {}
    /\ raisedAt = {}
    /\ batch_operations = <<>>
    /\ bpc = "idle"
    /\ call = IdleCall
    /\ calls = 0
    /\ lastEnded = Ended(IdleCall, "none")
    /\ now = 1
    /\ faults = FALSE
    /\ reply = NoReply
    /\ store = {}
    /\ events = 0
    /\ settings = DEFAULTS
    /\ _job_factories = [j \in JobIds |-> NoFactory]
    /\ _scheduled_jobs = [j \in JobIds |-> 0]
    /\ timers = {}
    /\ instances = [j \in JobIds |-> 0]
    /\ started = FALSE
    /\ spc = "idle"
    /\ snapshot = DEFAULTS
    /\ lastCall = Call("none", "", "", FALSE)
    /\ lastEvent = [kind |-> "none", job |-> ""]
    /\ escaped = FALSE
    /\ sync_events = {}
    /\ sqlite_sequence = 0
    /\ clock = 0
    /\ issued = <<>>
    /\ cursor = NoneInt
    /\ received = <<>>
    /\ prevList = NoList
    /\ gap = "none"
    /\ lastList = NoList
    /\ sinceList = "none"
    /\ lastRecorded = NoRow
    /\ lastPrune = NoPrune
    /\ _data = StoreDefaults
    /\ settings_file = EmptyDict
    /\ lastUpdate = NoUpdate
    /\ updateCalls = 0
    /\ countdown = [j \in JobIds |-> 0]
    /\ sinceSync = 0
    /\ minute = 0
    /\ tpc = [t \in Threads |-> "idle"]
    /\ tsnap = [t \in Threads |-> NoSnapshot]
    /\ tcalls = [t \in Threads |-> 0]
    /\ local = [t \in Contexts |-> 0]
    /\ uses = {}
    /\ closedConns = {}
    /\ nextConn = 1
    /\ lockHolder = 0
    /\ pending = {}
    /\ committed = {}
    /\ dpc = [t \in Contexts |-> "idle"]
    /\ dresult = [t \in Contexts |-> "none"]
    /\ writes = [t \in Contexts |-> 0]
    /\ objects = FirstObjects
    /\ data_root = <<1, <<>>>>
    /\ persisted = Absent
    /\ held = NoObject
    /\ storeOps = 1
    /\ lastStore = StoreCall("new_manager", FALSE)
    /\ fresh = NotLoaded

\* the request loop on every possible input stream
SpecHost == Init /\ [][HostNext]_vars

\* the request loop at rest on an empty stream; the store is empty
InitBatch ==
    /\ stream = <<>>
    /\ rpos = 0
    /\ hpc = "read"
    /\ message = Null
    /\ response = Null
    /\ stdout = <<>>
    /\ exitKind = "running"
    /\ dbOpen = TRUE
    /\ lastRead = 0 - 1
    /\ handled = {}
    /\ raisedAt = {}
    /\ batch_operations = <<>>
    /\ bpc = "idle"
    /\ call = IdleCall
    /\ calls = 0
    /\ lastEnded = Ended(IdleCall, "none")
    /\ now = 1
    /\ faults = FALSE
    /\ reply = NoReply
    /\ store = {}
    /\ events = 0
    /\ settings = DEFAULTS
    /\ _job_factories = [j \in JobIds |-> NoFactory]
    /\ _scheduled_jobs = [j \in JobIds |-> 0]
    /\ timers = {}
    /\ instances = [j \in JobIds |-> 0]
    /\ started = FALSE
    /\ spc = "idle"
    /\ snapshot = DEFAULTS
    /\ lastCall = Call("none", "", "", FALSE)
    /\ lastEvent = [kind |-> "none", job |-> ""]
    /\ escaped = FALSE
    /\ sync_events = {}
    /\ sqlite_sequence = 0
    /\ clock = 0
    /\ issued = <<>>
    /\ cursor = NoneInt
    /\ received = <<>>
    /\ prevList = NoList
    /\ gap = "none"
    /\ lastList = NoList
    /\ sinceList = "none"
    /\ lastRecorded = NoRow
    /\ lastPrune = NoPrune
    /\ _data = StoreDefaults
    /\ settings_file = EmptyDict
    /\ lastUpdate = NoUpdate
    /\ updateCalls = 0
    /\ countdown = [j \in JobIds |-> 0]
    /\ sinceSync = 0
    /\ minute = 0
    /\ tpc = [t \in Threads |-> "idle"]
    /\ tsnap = [t \in Threads |-> NoSnapshot]
    /\ tcalls = [t \in Threads |-> 0]
    /\ local = [t \in Contexts |-> 0]
    /\ uses = {}
    /\ closedConns = {}
    /\ nextConn = 1
    /\ lockHolder = 0
    /\ pending = {}
    /\ committed = {}
    /\ dpc = [t \in Contexts |-> "idle"]
    /\ dresult = [t \in Contexts |-> "none"]
    /\ writes = [t \in Contexts |-> 0]
    /\ objects = FirstObjects
    /\ data_root = <<1, <<>>>>
    /\ persisted = Absent
    /\ held = NoObject
    /\ storeOps = 1
    /\ lastStore = StoreCall("new_manager", FALSE)
    /\ fresh = NotLoaded

\* bulk calls and pollers on one store
SpecBatch == InitBatch /\ [][BatchNext]_vars

\* the scheduler service on the default settings; the request loop and the
\* batch engine are at rest
InitSched ==
    /\ stream = <<>>
    /\ rpos = 0
    /\ hpc = "read"
    /\ message = Null
    /\ response = Null
    /\ stdout = <<>>
    /\ exitKind = "running"
    /\ dbOpen = TRUE
    /\ lastRead = 0 - 1
    /\ handled = {}
    /\ raisedAt = {}
    /\ batch_operations = <<>>
    /\ bpc = "idle"
    /\ call = IdleCall
    /\ calls = 0
    /\ lastEnded = Ended(IdleCall, "none")
    /\ now = 1
    /\ faults = FALSE
    /\ reply = NoReply
    /\ store = {}
    /\ events = 0
    /\ settings = DEFAULTS
    /\ _job_factories = [j \in JobIds |-> NoFactory]
    /\ _scheduled_jobs = [j \in JobIds |-> 0]
    /\ timers = {}
    /\ instances = [j \in JobIds |-> 0]
    /\ started = FALSE
    /\ spc = "idle"
    /\ snapshot = DEFAULTS
    /\ lastCall = Call("none", "", "", FALSE)
    /\ lastEvent = [kind |-> "none", job |-> ""]
    /\ escaped = FALSE
    /\ sync_events = {}
    /\ sqlite_sequence = 0
    /\ clock = 0
    /\ issued = <<>>
    /\ cursor = NoneInt
    /\ received = <<>>
    /\ prevList = NoList
    /\ gap = "none"
    /\ lastList = NoList
    /\ sinceList = "none"
    /\ lastRecorded = NoRow
    /\ lastPrune = NoPrune
    /\ _data = StoreDefaults
    /\ settings_file = EmptyDict
    /\ lastUpdate = NoUpdate
    /\ updateCalls = 0
    /\ countdown = [j \in JobIds |-> 0]
    /\ sinceSync = 0
    /\ minute = 0
    /\ tpc = [t \in Threads |-> "idle"]
    /\ tsnap = [t \in Threads |-> NoSnapshot]
    /\ tcalls = [t \in Threads |-> 0]
    /\ local = [t \in Contexts |-> 0]
    /\ uses = {}
    /\ closedConns = {}
    /\ nextConn = 1
    /\ lockHolder = 0
    /\ pending = {}
    /\ committed = {}
    /\ dpc = [t \in Contexts |-> "idle"]
    /\ dresult = [t \in Contexts |-> "none"]
    /\ writes = [t \in Contexts |-> 0]
    /\ objects = FirstObjects
    /\ data_root = <<1, <<>>>>
    /\ persisted = Absent
    /\ held = NoObject
    /\ storeOps = 1
    /\ lastStore = StoreCall("new_manager", FALSE)
    /\ fresh = NotLoaded

\* configuration calls, timers coming due and job runs
SpecSched == InitSched /\ [][SchedNext]_vars

\* the event log empty at hour 0; everything else is at rest
InitEvents ==
    /\ stream = <<>>
    /\ rpos = 0
    /\ hpc = "read"
    /\ message = Null
    /\ response = Null
    /\ stdout = <<>>
    /\ exitKind = "running"
    /\ dbOpen = TRUE
    /\ lastRead = 0 - 1
    /\ handled = {}
    /\ raisedAt = {}
    /\ batch_operations = <<>>
    /\ bpc = "idle"
    /\ call = IdleCall
    /\ calls = 0
    /\ lastEnded = Ended(IdleCall, "none")
    /\ now = 1
    /\ faults = FALSE
    /\ reply = NoReply
    /\ store = {}
    /\ events = 0
    /\ settings = DEFAULTS
    /\ _job_factories = [j \in JobIds |-> NoFactory]
    /\ _scheduled_jobs = [j \in JobIds |-> 0]
    /\ timers = {}
    /\ instances = [j \in JobIds |-> 0]
    /\ started = FALSE
    /\ spc = "idle"
    /\ snapshot = DEFAULTS
    /\ lastCall = Call("none", "", "", FALSE)
    /\ lastEvent = [kind |-> "none", job |-> ""]
    /\ escaped = FALSE
    /\ sync_events = {}
    /\ sqlite_sequence = 0
    /\ clock = 0
    /\ issued = <<>>
    /\ cursor = NoneInt
    /\ received = <<>>
    /\ prevList = NoList
    /\ gap = "none"
    /\ lastList = NoList
    /\ sinceList = "none"
    /\ lastRecorded = NoRow
    /\ lastPrune = NoPrune
    /\ _data = StoreDefaults
    /\ settings_file = EmptyDict
    /\ lastUpdate = NoUpdate
    /\ updateCalls = 0
    /\ countdown = [j \in JobIds |-> 0]
    /\ sinceSync = 0
    /\ minute = 0
    /\ tpc = [t \in Threads |-> "idle"]
    /\ tsnap = [t \in Threads |-> NoSnapshot]
    /\ tcalls = [t \in Threads |-> 0]
    /\ local = [t \in Contexts |-> 0]
    /\ uses = {}
    /\ closedConns = {}
    /\ nextConn = 1
    /\ lockHolder = 0
    /\ pending = {}
    /\ committed = {}
    /\ dpc = [t \in Contexts |-> "idle"]
    /\ dresult = [t \in Contexts |-> "none"]
    /\ writes = [t \in Contexts |-> 0]
    /\ objects = FirstObjects
    /\ data_root = <<1, <<>>>>
    /\ persisted = Absent
    /\ held = NoObject
    /\ storeOps = 1
    /\ lastStore = StoreCall("new_manager", FALSE)
    /\ fresh = NotLoaded

\* writers, readers, a poller and the retention job on one event log
SpecEvents == InitEvents /\ [][EventNext]_vars

\* a poller that has not polled yet, on an empty event log at hour 0;
\* everything else is at rest
InitPoll ==
    /\ stream = <<>>
    /\ rpos = 0
    /\ hpc = "read"
    /\ message = Null
    /\ response = Null
    /\ stdout = <<>>
    /\ exitKind = "running"
    /\ dbOpen = TRUE
    /\ lastRead = 0 - 1
    /\ handled = {}
    /\ raisedAt = {}
    /\ batch_operations = <<>>
    /\ bpc = "idle"
    /\ call = IdleCall
    /\ calls = 0
    /\ lastEnded = Ended(IdleCall, "none")
    /\ now = 1
    /\ faults = FALSE
    /\ reply = NoReply
    /\ store = {}
    /\ events = 0
    /\ settings = DEFAULTS
    /\ _job_factories = [j \in JobIds |-> NoFactory]
    /\ _scheduled_jobs = [j \in JobIds |-> 0]
    /\ timers = {}
    /\ instances = [j \in JobIds |-> 0]
    /\ started = FALSE
    /\ spc = "idle"
    /\ snapshot = DEFAULTS
    /\ lastCall = Call("none", "", "", FALSE)
    /\ lastEvent = [kind |-> "none", job |-> ""]
    /\ escaped = FALSE
    /\ sync_events = {}
    /\ sqlite_sequence = 0
    /\ clock = 0
    /\ issued = <<>>
    /\ cursor = NoneInt
    /\ received = <<>>
    /\ prevList = NoList
    /\ gap = "none"
    /\ lastList = NoList
    /\ sinceList = "none"
    /\ lastRecorded = NoRow
    /\ lastPrune = NoPrune
    /\ _data = StoreDefaults
    /\ settings_file = EmptyDict
    /\ lastUpdate = NoUpdate
    /\ updateCalls = 0
    /\ countdown = [j \in JobIds |-> 0]
    /\ sinceSync = 0
    /\ minute = 0
    /\ tpc = [t \in Threads |-> "idle"]
    /\ tsnap = [t \in Threads |-> NoSnapshot]
    /\ tcalls = [t \in Threads |-> 0]
    /\ local = [t \in Contexts |-> 0]
    /\ uses = {}
    /\ closedConns = {}
    /\ nextConn = 1
    /\ lockHolder = 0
    /\ pending = {}
    /\ committed = {}
    /\ dpc = [t \in Contexts |-> "idle"]
    /\ dresult = [t \in Contexts |-> "none"]
    /\ writes = [t \in Contexts |-> 0]
    /\ objects = FirstObjects
    /\ data_root = <<1, <<>>>>
    /\ persisted = Absent
    /\ held = NoObject
    /\ storeOps = 1
    /\ lastStore = StoreCall("new_manager", FALSE)
    /\ fresh = NotLoaded

\* writers, one poller and the retention job on one event log
SpecPoll == InitPoll /\ [][PollNext]_vars

\* the settings store on its defaults, no settings file written yet;
\* everything else is at rest
InitSettings ==
    /\ stream = <<>>
    /\ rpos = 0
    /\ hpc = "read"
    /\ message = Null
    /\ response = Null
    /\ stdout = <<>>
    /\ exitKind = "running"
    /\ dbOpen = TRUE
    /\ lastRead = 0 - 1
    /\ handled = {}
    /\ raisedAt = {}
    /\ batch_operations = <<>>
    /\ bpc = "idle"
    /\ call = IdleCall
    /\ calls = 0
    /\ lastEnded = Ended(IdleCall, "none")
    /\ now = 1
    /\ faults = FALSE
    /\ reply = NoReply
    /\ store = {}
    /\ events = 0
    /\ settings = DEFAULTS
    /\ _job_factories = [j \in JobIds |-> NoFactory]
    /\ _scheduled_jobs = [j \in JobIds |-> 0]
    /\ timers = {}
    /\ instances = [j \in JobIds |-> 0]
    /\ started = FALSE
    /\ spc = "idle"
    /\ snapshot = DEFAULTS
    /\ lastCall = Call("none", "", "", FALSE)
    /\ lastEvent = [kind |-> "none", job |-> ""]
    /\ escaped = FALSE
    /\ sync_events = {}
    /\ sqlite_sequence = 0
    /\ clock = 0
    /\ issued = <<>>
    /\ cursor = NoneInt
    /\ received = <<>>
    /\ prevList = NoList
    /\ gap = "none"
    /\ lastList = NoList
    /\ sinceList = "none"
    /\ lastRecorded = NoRow
    /\ lastPrune = NoPrune
    /\ _data = StoreDefaults
    /\ settings_file = EmptyDict
    /\ lastUpdate = NoUpdate
    /\ updateCalls = 0
    /\ countdown = [j \in JobIds |-> 0]
    /\ sinceSync = 0
    /\ minute = 0
    /\ tpc = [t \in Threads |-> "idle"]
    /\ tsnap = [t \in Threads |-> NoSnapshot]
    /\ tcalls = [t \in Threads |-> 0]
    /\ local = [t \in Contexts |-> 0]
    /\ uses = {}
    /\ closedConns = {}
    /\ nextConn = 1
    /\ lockHolder = 0
    /\ pending = {}
    /\ committed = {}
    /\ dpc = [t \in Contexts |-> "idle"]
    /\ dresult = [t \in Contexts |-> "none"]
    /\ writes = [t \in Contexts |-> 0]
    /\ objects = FirstObjects
    /\ data_root = <<1, <<>>>>
    /\ persisted = Absent
    /\ held = NoObject
    /\ storeOps = 1
    /\ lastStore = StoreCall("new_manager", FALSE)
    /\ fresh = NotLoaded

\* update_section calls on one settings store
SpecSettings == InitSettings /\ [][SettingsNext]_vars

InitTimed ==
    /\ stream = <<>>
    /\ rpos = 0
    /\ hpc = "read"
    /\ message = Null
    /\ response = Null
    /\ stdout = <<>>
    /\ exitKind = "running"
    /\ dbOpen = TRUE
    /\ lastRead = 0 - 1
    /\ handled = {}
    /\ raisedAt = {}
    /\ batch_operations = <<>>
    /\ bpc = "idle"
    /\ call = IdleCall
    /\ calls = 0
    /\ lastEnded = Ended(IdleCall, "none")
    /\ now = 1
    /\ faults = FALSE
    /\ reply = NoReply
    /\ store = {}
    /\ events = 0
    /\ settings = DEFAULTS
    /\ _job_factories = [j \in JobIds |-> NoFactory]
    /\ _scheduled_jobs = [j \in JobIds |-> 0]
    /\ timers = {}
    /\ instances = [j \in JobIds |-> 0]
    /\ started = FALSE
    /\ spc = "idle"
    /\ snapshot = DEFAULTS
    /\ lastCall = Call("none", "", "", FALSE)
    /\ lastEvent = [kind |-> "none", job |-> ""]
    /\ escaped = FALSE
    /\ sync_events = {}
    /\ sqlite_sequence = 0
    /\ clock = 0
    /\ issued = <<>>
    /\ cursor = NoneInt
    /\ received = <<>>
    /\ prevList = NoList
    /\ gap = "none"
    /\ lastList = NoList
    /\ sinceList = "none"
    /\ lastRecorded = NoRow
    /\ lastPrune = NoPrune
    /\ _data = StoreDefaults
    /\ settings_file = EmptyDict
    /\ lastUpdate = NoUpdate
    /\ updateCalls = 0
    /\ countdown = [j \in JobIds |-> 0]
    /\ sinceSync = 0
    /\ minute = 0
    /\ tpc = [t \in Threads |-> "idle"]
    /\ tsnap = [t \in Threads |-> NoSnapshot]
    /\ tcalls = [t \in Threads |-> 0]
    /\ local = [t \in Contexts |-> 0]
    /\ uses = {}
    /\ closedConns = {}
    /\ nextConn = 1
    /\ lockHolder = 0
    /\ pending = {}
    /\ committed = {}
    /\ dpc = [t \in Contexts |-> "idle"]
    /\ dresult = [t \in Contexts |-> "none"]
    /\ writes = [t \in Contexts |-> 0]
    /\ objects = FirstObjects
    /\ data_root = <<1, <<>>>>
    /\ persisted = Absent
    /\ held = NoObject
    /\ storeOps = 1
    /\ lastStore = StoreCall("new_manager", FALSE)
    /\ fresh = NotLoaded

\* the scheduler with its clock: timers fire when their countdown runs out
SpecTimed == InitTimed /\ [][TimedNext]_vars

\* the settings once both jobs are registered with a default interval of 10
Registered ==
    SeedJob(SeedJob(DEFAULTS, "auto_renew_trials", 10, "auto_renew_trials"),
            "cleanup", 10, "cleanup")

\* the scheduler after both jobs were registered and start() has returned
InitRace ==
    /\ stream = <<>>
    /\ rpos = 0
    /\ hpc = "read"
    /\ message = Null
    /\ response = Null
    /\ stdout = <<>>
    /\ exitKind = "running"
    /\ dbOpen = TRUE
    /\ lastRead = 0 - 1
    /\ handled = {}
    /\ raisedAt = {}
    /\ batch_operations = <<>>
    /\ bpc = "idle"
    /\ call = IdleCall
    /\ calls = 0
    /\ lastEnded = Ended(IdleCall, "none")
    /\ now = 1
    /\ faults = FALSE
    /\ reply = NoReply
    /\ store = {}
    /\ events = 0
    /\ settings = Registered
    /\ _job_factories = [j \in JobIds |-> Factory(10, j)]
    /\ _scheduled_jobs =
          [j \in JobIds |->
              IF j \in { x.id : x \in JobsToSchedule(Registered,
                                  [k \in JobIds |-> Factory(10, k)]) }
              THEN 10 ELSE 0]
    /\ timers = JobsToSchedule(Registered,
                               [k \in JobIds |-> Factory(10, k)])
    /\ instances = [j \in JobIds |-> 0]
    /\ started = TRUE
    /\ spc = "idle"
    /\ snapshot = Registered
    /\ lastCall = Call("start", "", "", FALSE)
    /\ lastEvent = [kind |-> "none", job |-> ""]
    /\ escaped = FALSE
    /\ sync_events = {}
    /\ sqlite_sequence = 0
    /\ clock = 0
    /\ issued = <<>>
    /\ cursor = NoneInt
    /\ received = <<>>
    /\ prevList = NoList
    /\ gap = "none"
    /\ lastList = NoList
    /\ sinceList = "none"
    /\ lastRecorded = NoRow
    /\ lastPrune = NoPrune
    /\ _data = StoreDefaults
    /\ settings_file = EmptyDict
    /\ lastUpdate = NoUpdate
    /\ updateCalls = 0
    /\ countdown = [j \in JobIds |-> 0]
    /\ sinceSync = 0
    /\ minute = 0
    /\ tpc = [t \in Threads |-> "idle"]
    /\ tsnap = [t \in Threads |-> NoSnapshot]
    /\ tcalls = [t \in Threads |-> 0]
    /\ local = [t \in Contexts |-> 0]
    /\ uses = {}
    /\ closedConns = {}
    /\ nextConn = 1
    /\ lockHolder = 0
    /\ pending = {}
    /\ committed = {}
    /\ dpc = [t \in Contexts |-> "idle"]
    /\ dresult = [t \in Contexts |-> "none"]
    /\ writes = [t \in Contexts |-> 0]
    /\ objects = FirstObjects
    /\ data_root = <<1, <<>>>>
    /\ persisted = Absent
    /\ held = NoObject
    /\ storeOps = 1
    /\ lastStore = StoreCall("new_manager", FALSE)
    /\ fresh = NotLoaded

\* two threads configuring the started scheduler
SpecRace == InitRace /\ [][RaceNext]_vars

\* a Database constructed by the dispatcher thread: _init_schema has
\* opened that thread's connection
InitDb ==
    /\ stream = <<>>
    /\ rpos = 0
    /\ hpc = "read"
    /\ message = Null
    /\ response = Null
    /\ stdout = <<>>
    /\ exitKind = "running"
    /\ dbOpen = TRUE
    /\ lastRead = 0 - 1
    /\ handled = {}
    /\ raisedAt = {}
    /\ batch_operations = <<>>
    /\ bpc = "idle"
    /\ call = IdleCall
    /\ calls = 0
    /\ lastEnded = Ended(IdleCall, "none")
    /\ now = 1
    /\ faults = FALSE
    /\ reply = NoReply
    /\ store = {}
    /\ events = 0
    /\ settings = DEFAULTS
    /\ _job_factories = [j \in JobIds |-> NoFactory]
    /\ _scheduled_jobs = [j \in JobIds |-> 0]
    /\ timers = {}
    /\ instances = [j \in JobIds |-> 0]
    /\ started = FALSE
    /\ spc = "idle"
    /\ snapshot = DEFAULTS
    /\ lastCall = Call("none", "", "", FALSE)
    /\ lastEvent = [kind |-> "none", job |-> ""]
    /\ escaped = FALSE
    /\ sync_events = {}
    /\ sqlite_sequence = 0
    /\ clock = 0
    /\ issued = <<>>
    /\ cursor = NoneInt
    /\ received = <<>>
    /\ prevList = NoList
    /\ gap = "none"
    /\ lastList = NoList
    /\ sinceList = "none"
    /\ lastRecorded = NoRow
    /\ lastPrune = NoPrune
    /\ _data = StoreDefaults
    /\ settings_file = EmptyDict
    /\ lastUpdate = NoUpdate
    /\ updateCalls = 0
    /\ countdown = [j \in JobIds |-> 0]
    /\ sinceSync = 0
    /\ minute = 0
    /\ tpc = [t \in Threads |-> "idle"]
    /\ tsnap = [t \in Threads |-> NoSnapshot]
    /\ tcalls = [t \in Threads |-> 0]
    /\ local = [t \in Contexts |-> IF t = "dispatcher" THEN 1 ELSE 0]
    /\ uses = {<<1, "dispatcher">>}
    /\ closedConns = {}
    /\ nextConn = 2
    /\ lockHolder = 0
    /\ pending = {}
    /\ committed = {}
    /\ dpc = [t \in Contexts |-> "idle"]
    /\ dresult = [t \in Contexts |-> "none"]
    /\ writes = [t \in Contexts |-> 0]
    /\ objects = FirstObjects
    /\ data_root = <<1, <<>>>>
    /\ persisted = Absent
    /\ held = NoObject
    /\ storeOps = 1
    /\ lastStore = StoreCall("new_manager", FALSE)
    /\ fresh = NotLoaded

\* two threads using one Database
SpecDb == InitDb /\ [][DbNext]_vars

\* a SettingsManager constructed on a path with no file
InitStore ==
    /\ stream = <<>>
    /\ rpos = 0
    /\ hpc = "read"
    /\ message = Null
    /\ response = Null
    /\ stdout = <<>>
    /\ exitKind = "running"
    /\ dbOpen = TRUE
    /\ lastRead = 0 - 1
    /\ handled = {}
    /\ raisedAt = {}
    /\ batch_operations = <<>>
    /\ bpc = "idle"
    /\ call = IdleCall
    /\ calls = 0
    /\ lastEnded = Ended(IdleCall, "none")
    /\ now = 1
    /\ faults = FALSE
    /\ reply = NoReply
    /\ store = {}
    /\ events = 0
    /\ settings = DEFAULTS
    /\ _job_factories = [j \in JobIds |-> NoFactory]
    /\ _scheduled_jobs = [j \in JobIds |-> 0]
    /\ timers = {}
    /\ instances = [j \in JobIds |-> 0]
    /\ started = FALSE
    /\ spc = "idle"
    /\ snapshot = DEFAULTS
    /\ lastCall = Call("none", "", "", FALSE)
    /\ lastEvent = [kind |-> "none", job |-> ""]
    /\ escaped = FALSE
    /\ sync_events = {}
    /\ sqlite_sequence = 0
    /\ clock = 0
    /\ issued = <<>>
    /\ cursor = NoneInt
    /\ received = <<>>
    /\ prevList = NoList
    /\ gap = "none"
    /\ lastList = NoList
    /\ sinceList = "none"
    /\ lastRecorded = NoRow
    /\ lastPrune = NoPrune
    /\ _data = StoreDefaults
    /\ settings_file = EmptyDict
    /\ lastUpdate = NoUpdate
    /\ updateCalls = 0
    /\ countdown = [j \in JobIds |-> 0]
    /\ sinceSync = 0
    /\ minute = 0
    /\ tpc = [t \in Threads |-> "idle"]
    /\ tsnap = [t \in Threads |-> NoSnapshot]
    /\ tcalls = [t \in Threads |-> 0]
    /\ local = [t \in Contexts |-> 0]
    /\ uses = {}
    /\ closedConns = {}
    /\ nextConn = 1
    /\ lockHolder = 0
    /\ pending = {}
    /\ committed = {}
    /\ dpc = [t \in Contexts |-> "idle"]
    /\ dresult = [t \in Contexts |-> "none"]
    /\ writes = [t \in Contexts |-> 0]
    /\ objects = FirstObjects
    /\ data_root = <<1, <<>>>>
    /\ persisted = Absent
    /\ held = NoObject
    /\ storeOps = 1
    /\ lastStore = StoreCall("new_manager", FALSE)
    /\ fresh = NotLoaded

\* calls on one settings store, with the identity of its mappings
SpecStore == InitStore /\ [][StoreNext]_vars

\* ------------------------------------------------------------------------
\* Properties of the request loop
\* ------------------------------------------------------------------------
ReqId(k) == Get(stream[k].text.val, "id")

ReqMethod(k) == Get(stream[k].text.val, "method")

\* a complete frame carrying a JSON-RPC request object
IsRpcRequest(f) ==
    /\ f = WellFramed(f.text)
    /\ f.text.val.kind = "obj"
    /\ "id" \in DOMAIN f.text.val.members
    /\ Get(f.text.val, "method").kind = "str"

AllRequests == \A k \in 1..Len(stream) : IsRpcRequest(stream[k])

IsError(r) == "error" \in DOMAIN r /\ "result" \notin DOMAIN r

IsResult(r) == "result" \in DOMAIN r /\ "error" \notin DOMAIN r

\* C1: N well-framed JSON-RPC requests get exactly N responses, in request
\* order, response k carrying the id of request k, and frame k+1 is read
\* only after response k has been written.
C1_OrderedResponses ==
    AllRequests =>
        /\ Len(stdout) <= rpos /\ rpos <= Len(stdout) + 1
        /\ (hpc = "read" => rpos = Len(stdout))
        /\ \A k \in 1..Len(stdout) : stdout[k].id = ReqId(k)
        /\ (hpc = "stopped" => Len(stdout) = Len(stream))

C1_Witness ==
    /\ AllRequests
    /\ Len(stream) = 2
    /\ hpc = "stopped"
    /\ Len(stdout) = 2
    /\ stdout[1].id # stdout[2].id

\* the response a request must get, as far as its method decides it
CorrectFor(k, r) ==
    /\ r.id = ReqId(k)
    /\ (ReqMethod(k).segs = <<"system", "ping">> =>
            IsResult(r) /\ r.result = "pong")
    /\ (~ KnownAction(ReqMethod(k).segs) => IsError(r))

\* C2: when the handler of request k raises, the response is an error
\* carrying k's id, the loop goes on, and request k+1 sent afterwards gets
\* its own correct response.
C2_HandlerErrorIsolated ==
    \A k \in raisedAt :
        /\ (hpc = "send" /\ rpos = k =>
               IsError(response) /\ response.id = ReqId(k))
        /\ (hpc \in {"read", "stopped"} => Len(stdout) >= k)
        /\ (Len(stdout) >= k =>
               IsError(stdout[k]) /\ stdout[k].id = ReqId(k))
        /\ (hpc = "stopped" /\ k + 1 <= Len(stream)
               /\ IsRpcRequest(stream[k + 1]) =>
               Len(stdout) >= k + 1 /\ CorrectFor(k + 1, stdout[k + 1]))

C2_Witness ==
    /\ 1 \in raisedAt
    /\ hpc = "stopped"
    /\ Len(stdout) >= 2
    /\ IsRpcRequest(stream[2])
    /\ IsResult(stdout[2])

\* a dispatched request whose method has an unknown namespace or action
UnknownMethod(f) ==
    /\ IsRpcRequest(f)
    /\ ~ KnownAction(Get(f.text.val, "method").segs)

\* C3: an unknown namespace or action yields a response with the request's
\* id, error code -32603, a non-null message and no result key, and the
\* loop keeps serving; every response has exactly one of result and error.
C3_UnknownMethodError ==
    /\ \A k \in 1..Len(stdout) : IsError(stdout[k]) # IsResult(stdout[k])
    /\ \A k \in 1..rpos :
          UnknownMethod(stream[k]) =>
            /\ (hpc \in {"read", "stopped"} => Len(stdout) >= k)
            /\ (Len(stdout) >= k =>
                   /\ stdout[k].id = ReqId(k)
                   /\ IsError(stdout[k])
                   /\ stdout[k].error.code = 0 - 32603
                   /\ stdout[k].error.message \in STRING)

C3_Witness ==
    /\ Len(stdout) >= 2
    /\ UnknownMethod(stream[1])
    /\ Get(stream[1].text.val, "method").segs[1] = "batch"
    /\ hpc = "read"

\* truncated: the stream closes before the declared frame is complete
Truncated(f) == f.hdr < 4 \/ f.avail < f.declared

\* a transport error: truncated frame or payload that is not JSON
TransportBad(f) == Truncated(f) \/ f.text.val.kind = "bad"

\* C4: the loop ends only on end-of-stream or on a truncated or malformed
\* frame; a well-framed frame with any valid JSON payload gets a response
\* and the loop reads on.
C4_OnlyTransportFatal ==
    hpc = "stopped" =>
        \/ /\ exitKind = "eof"
           /\ rpos = Len(stream)
           /\ Len(stdout) = Len(stream)
        \/ rpos >= 1 /\ TransportBad(stream[rpos])

\* C5: a frame that cannot be read in full is never dispatched and gets no
\* response, the loop ends with an error and the database connection
\* closed; a stream ending at a frame boundary ends the loop cleanly.
C5_TruncatedIsFatal ==
    /\ \A k \in 1..rpos :
          Truncated(stream[k]) =>
            /\ k \notin handled
            /\ Len(stdout) < k
            /\ hpc = "stopped" /\ exitKind = "error" /\ ~ dbOpen
    /\ (hpc = "stopped" /\ Len(stdout) = Len(stream) =>
           exitKind = "eof" /\ ~ dbOpen)

\* the fixed upper bound on a declared frame length (64 MiB)
LengthLimit == 67108864

\* C6: no declared length above the fixed upper bound is ever passed to
\* the payload read.
C6_LengthBounded == lastRead <= LengthLimit

\* ------------------------------------------------------------------------
\* Properties of the batch engine
\* ------------------------------------------------------------------------
Finalized(row) == row.status # "running"

\* C7: once a batch call has finalized, the record read through
\* get_batch_progress has completed_items = items that succeeded and
\* failed_items = items that failed (so their sum is total_items), status
\* completed iff failed_items = 0 and partial_success otherwise, and an
\* empty batch is completed.  Stated for runs without a storage fault.
C7_FinalCountsExact ==
    ~ faults /\ lastEnded.outcome = "returned" =>
        LET p == get_batch_progress(batch_operations, lastEnded.batch_id)
        IN /\ p.completed_items = lastEnded.succeeded
           /\ p.failed_items = lastEnded.total - lastEnded.succeeded
           /\ p.completed_items + p.failed_items = p.total_items
           /\ p.status \in {"completed", "partial_success"}
           /\ (p.status = "completed" <=> p.failed_items = 0)
           /\ (p.total_items = 0 => p.status = "completed")

\* C8: in every state, also after a failed progress write or a failed item
\* handler, completed_items + failed_items <= total_items in every record
\* and in the counters of the running call, and no item is counted twice.
C8_CountsWithinTotal ==
    /\ \A i \in 1..Len(batch_operations) :
          batch_operations[i].completed_items + batch_operations[i].failed_items
              <= batch_operations[i].total_items
    /\ call.count + call.failed_count <= call.idx
    /\ lastEnded.count + lastEnded.failed <= lastEnded.total

\* C9: a record's status changes only from running to completed or
\* partial_success, at most once, and no step (a batch call, a progress
\* read, a history read) changes the status, counts or completed_at of a
\* finalized record.
C9_FinalizedIsFrozen ==
    [][ /\ Len(batch_operations') >= Len(batch_operations)
        /\ \A i \in 1..Len(batch_operations) :
              LET old == batch_operations[i]
                  new == batch_operations'[i]
              IN /\ new.status # old.status =>
                      /\ old.status = "running"
                      /\ new.status \in {"completed", "partial_success"}
                 /\ Finalized(old) =>
                      /\ new.status = old.status
                      /\ new.completed_items = old.completed_items
                      /\ new.failed_items = old.failed_items
                      /\ new.completed_at = old.completed_at ]_vars

C9_Witness ==
    /\ Len(batch_operations) = 2
    /\ batch_operations[1].status = "partial_success"
    /\ batch_operations[2].status = "completed"
    /\ batch_operations[2].completed_at > batch_operations[1].completed_at
    /\ reply.kind = "progress"
    /\ reply.value.batch_id = 1
    /\ reply.value.status = "partial_success"

\* C10: every call that created a record finalizes it before the call
\* ends: a record in status running belongs to the call in progress, and a
\* record has left running exactly when its completed_at is set.  Stated
\* for runs without a storage fault: the items succeed, fail validation or
\* raise.
C10_NoRecordLeftRunning ==
    ~ faults =>
    \A i \in 1..Len(batch_operations) :
        /\ batch_operations[i].status = "running" =>
              bpc = "loop" /\ call.batch_id = i
        /\ Finalized(batch_operations[i]) <=>
              batch_operations[i].completed_at # NULL

\* C11: between items a poller of get_batch_progress never sees
\* completed_items or failed_items decrease, their sum never exceeds
\* total_items, and after each processed item the persisted counts include
\* that item.  Stated for runs without a storage fault.
C11_PollerSeesEveryItem ==
    [][ ~ faults' =>
          /\ \A i \in 1..Len(batch_operations) :
                LET old == get_batch_progress(batch_operations, i)
                    new == get_batch_progress(batch_operations', i)
                IN /\ new.completed_items >= old.completed_items
                   /\ new.failed_items >= old.failed_items
                   /\ new.completed_items + new.failed_items
                         <= new.total_items
          /\ bpc' = "loop" =>
                LET p == get_batch_progress(batch_operations', call'.batch_id)
                IN p.completed_items + p.failed_items = call'.idx ]_vars

\* C12: an item whose processing raises is counted as failed with one error
\* entry and the items after it are still attempted: no call ends by
\* raising because of an item.  Stated for runs without a storage fault.
C12_FailingItemNeverAborts ==
    ~ faults =>
        /\ lastEnded.outcome # "raised"
        /\ Len(call.errors) = call.failed_count
        /\ call.count + call.failed_count = call.idx

\* C13: a batch of n items of which the items of F fail returns a result
\* with n - |F| successes, failed = |F|, total = n and one error entry per
\* failed item in item order, and its record has status partial_success
\* iff F is not empty.  Stated for runs without a storage fault.
C13_ResultCountsExact ==
    ~ faults /\ lastEnded.outcome # "none" =>
        /\ lastEnded.outcome = "returned"
        /\ lastEnded.count = lastEnded.succeeded
        /\ lastEnded.failed = lastEnded.total - lastEnded.succeeded
        /\ Len(lastEnded.errors) = lastEnded.failed
        /\ \A i, j \in 1..Len(lastEnded.errors) :
              i < j => lastEnded.errors[i].item < lastEnded.errors[j].item
        /\ batch_operations[lastEnded.batch_id].status =
              FinalStatus(lastEnded.total - lastEnded.succeeded)

\* the cap on stored error entries; the model takes it below the number of
\* items a run submits, so that more items than the cap can fail
ErrorCap == MaxItems - 1

\* C14: the error entries of a batch, in the persisted error_log and in the
\* returned errors list, never exceed the cap.
C14_ErrorsCapped ==
    /\ \A i \in 1..Len(batch_operations) :
          Len(batch_operations[i].error_log) <= ErrorCap
    /\ Len(call.errors) <= ErrorCap
    /\ Len(lastEnded.errors) <= ErrorCap

\* C15: the mutation of an item that succeeded is in the store as soon as
\* the item is processed, also when the progress write after it fails, and
\* no later step (a failing item, a failing finalization, a failing event
\* append) takes a committed mutation out of the store.
C15_CommittedItemsStay ==
    [][ /\ store \subseteq store'
        /\ ( /\ bpc = "loop"
             /\ call.idx < Len(call.items)
             /\ call' # call
             /\ ItemOutcome(call.op, call.items[call.idx + 1]) = "created" )
           => <<call.batch_id, call.idx + 1>> \in store'
        /\ lastEnded'.batch_id > 0 =>
              Cardinality({ m \in store' : m[1] = lastEnded'.batch_id })
                  = lastEnded'.succeeded ]_vars

\* one item committed, the next item failed, the call returned its result
\* although the event append failed
C15_Witness ==
    /\ calls = 1
    /\ lastEnded.outcome = "returned"
    /\ lastEnded.total = 2
    /\ lastEnded.succeeded = 1
    /\ lastEnded.errors # <<>>
    /\ lastEnded.errors[1].item = 2
    /\ events = 0
    /\ faults
    /\ <<lastEnded.batch_id, 1>> \in store

\* ------------------------------------------------------------------------
\* Properties of the scheduler
\* ------------------------------------------------------------------------
\* the jobs that are enabled in the settings and have a registered callback
Schedulable ==
    { j \in JobIds : /\ settings.jobs[j].present
                     /\ settings.jobs[j].enabled
                     /\ _job_factories[j].registered }

\* a configuration call that rebuilds the schedule has returned
Rebuilt ==
    /\ spc = "idle"
    /\ lastCall.op \in {"set_enabled", "update_job_config", "start", "refresh"}
    /\ ~ lastCall.raised

\* C16: after set_enabled, update_job_config, start or refresh has returned
\* the timers are: none when the global enabled setting is false, otherwise
\* one per job that is enabled in the settings and registered, at the
\* interval stored in the settings; and no timer is left when the rebuild
\* starts to recreate timers.
C16_TimersMatchSettings ==
    /\ Rebuilt =>
          timers = IF settings.enabled
                   THEN { [id |-> j,
                           interval |-> settings.jobs[j].interval_minutes] :
                            j \in Schedulable }
                   ELSE {}
    /\ spc = "add" => timers = {}

C16_Witness ==
    /\ Rebuilt
    /\ lastCall.op = "update_job_config"
    /\ settings.enabled
    /\ [id |-> "cleanup", interval |-> 5] \in timers
    /\ settings.jobs["auto_renew_trials"].enabled
    /\ ~ _job_factories["auto_renew_trials"].registered
    /\ Cardinality(timers) = 1

\* C17: there is never more than one timer per job id, every timer of the
\* scheduler is the one the service keeps for its job (a rebuild leaves no
\* timer of an earlier schedule behind), and once a rebuild is over each
\* timer runs at the interval that rebuild read.
C17_OneTimerPerJob ==
    /\ \A t, u \in timers : t.id = u.id => t = u
    /\ \A t \in timers : _scheduled_jobs[t.id] = t.interval
    /\ spc = "idle" =>
          \A t \in timers : t.interval = snapshot.jobs[t.id].interval_minutes

\* the interval of a registered default of 10 was changed to 5, and the job
\* fired on the new timer
C17_Witness ==
    /\ started
    /\ spc = "idle"
    /\ lastCall.op = "update_job_config"
    /\ _job_factories["cleanup"].default_interval = 10
    /\ timers = {[id |-> "cleanup", interval |-> 5]}
    /\ lastEvent = [kind |-> "submitted", job |-> "cleanup"]

\* C18: at most one run of a job id is in flight at any time, whatever
\* timers come due and whatever rebuilds happen while a run is in flight.
C18_SingleInstance ==
    \A j \in JobIds : instances[j] <= 1

\* a timer of a job came due during a run of that job and was skipped, the
\* schedule having been rebuilt
C18_Witness ==
    /\ lastEvent = [kind |-> "skipped", job |-> "cleanup"]
    /\ instances["cleanup"] = 1
    /\ lastCall.op = "refresh"
    /\ spc = "idle"

\* C19: set_enabled changes the global flag and no job's entry in the
\* settings; when set_enabled(false) returns there are no timers, when
\* set_enabled(true) returns the timers are those of the registered jobs
\* whose own enabled flag is true.
C19_GlobalPauseKeepsJobFlags ==
    [][ /\ (spc = "idle" /\ spc' = "cancel" /\ lastCall'.op = "set_enabled")
           => /\ settings'.jobs = settings.jobs
              /\ settings'.enabled = (lastCall'.arg = "True")
        /\ (spc # "idle" /\ spc' = "idle" /\ lastCall.op = "set_enabled")
           => { t.id : t \in timers' } =
                 IF lastCall.arg = "True" THEN Schedulable ELSE {} ]_vars

C19_Witness ==
    /\ spc = "idle"
    /\ lastCall.op = "set_enabled"
    /\ lastCall.arg = "False"
    /\ started
    /\ timers = {}
    /\ Schedulable = JobIds

\* C20: a callback that raises is caught in the wrapper: no exception
\* reaches the scheduler, and the step in which the run ends changes no
\* timer, no setting and no run of another job.
C20_JobErrorContained ==
    [][ /\ ~ escaped'
        /\ (\E j \in JobIds : instances'[j] < instances[j])
           => /\ timers' = timers
              /\ _scheduled_jobs' = _scheduled_jobs
              /\ settings' = settings
              /\ lastEvent'.kind \in {"caught", "returned"}
              /\ \A k \in JobIds :
                    k # lastEvent'.job => instances'[k] = instances[k] ]_vars

\* a run of cleanup failed; its timer is still there and a run of the other
\* job is in flight
C20_Witness ==
    /\ lastEvent = [kind |-> "caught", job |-> "cleanup"]
    /\ \E t \in timers : t.id = "cleanup"
    /\ settings.jobs["cleanup"].enabled
    /\ instances["auto_renew_trials"] = 1

\* C21: every run of a job that ends, by its callback returning or by its
\* callback raising, appends exactly one row to the event log, a row that
\* names the outcome of that run.
C21_JobOutcomeRecorded ==
    [][ (\E j \in JobIds : instances'[j] < instances[j])
           => \E row \in sync_events' :
                 /\ sync_events' = sync_events \cup {row}
                 /\ row \notin sync_events
                 /\ row.entity_type = "job"
                 /\ row.action \in {"succeeded", "failed"} ]_vars

\* a step that is a register_job call for job j
RegisterStep(j) ==
    /\ spc = "idle"
    /\ spc' = "idle"
    /\ lastCall'.op = "register_job"
    /\ lastCall'.job = j
    /\ _job_factories'[j].registered
    /\ instances' = instances
    /\ lastEvent' = lastEvent

\* C22: register_job writes an entry for the job, seeded from the caller's
\* defaults, only when the settings have none; with an entry present the
\* settings stay as they are.  After a rebuild the stored enabled flag and
\* the stored interval of a registered job decide its timer, not the
\* defaults it was registered with.
C22_SeededOnceThenStored ==
    /\ [][ \A j \in JobIds :
             RegisterStep(j) =>
                IF settings.jobs[j].present
                THEN settings' = settings
                ELSE /\ settings'.jobs[j] =
                           JobConfig(TRUE,
                                     _job_factories'[j].default_interval,
                                     _job_factories'[j].description)
                     /\ settings'.enabled = settings.enabled
                     /\ \A k \in JobIds \ {j} :
                           settings'.jobs[k] = settings.jobs[k] ]_vars
    /\ [](Rebuilt /\ settings.enabled =>
            \A j \in JobIds :
               _job_factories[j].registered /\ settings.jobs[j].present =>
                  IF settings.jobs[j].enabled
                  THEN \E t \in timers :
                          /\ t.id = j
                          /\ t.interval = settings.jobs[j].interval_minutes
                  ELSE \A t \in timers : t.id # j)

\* cleanup was registered again with default interval 10 after its stored
\* interval had become 5: the entry and the 5-minute timer are still there,
\* and auto_renew_trials, registered, stays off as stored
C22_Witness ==
    /\ lastCall.op = "register_job"
    /\ lastCall.job = "cleanup"
    /\ _job_factories["cleanup"].default_interval = 10
    /\ settings.jobs["cleanup"].interval_minutes = 5
    /\ [id |-> "cleanup", interval |-> 5] \in timers
    /\ _job_factories["auto_renew_trials"].registered
    /\ settings.jobs["auto_renew_trials"] = JobConfig(FALSE, 60, "")

ListIsCurrent == lastList.called /\ sinceList = "none"

\* the result of the last call: only events with id > after_id (all events
\* when after_id is absent), in ascending id order, each a stored row, at
\* most `most` of them, and no stored row that qualifies is skipped in
\* favour of one with a higher id
ListedAfterCursor(most) ==
    LET evs == lastList.events
        a == IF lastList.after_id.some THEN lastList.after_id.v ELSE 0
    IN /\ \A i \in 1..Len(evs) : evs[i].id > a
       /\ \A i, j \in 1..Len(evs) : i < j => evs[i].id < evs[j].id
       /\ \A i \in 1..Len(evs) :
             \E r \in sync_events :
                evs[i] = [r EXCEPT !.payload = payload_loads(@)]
       /\ Len(evs) <= most
       /\ \A r \in sync_events :
             r.id > a =>
                \/ \E i \in 1..Len(evs) : evs[i].id = r.id
                \/ Len(evs) = most /\ r.id > evs[Len(evs)].id

\* C24 as stated: get_events(after_id, limit) returns only events with
\* id > after_id, ascending, at most limit of them and the lowest ids
\* first, from the oldest event when after_id is absent, and the call
\* leaves the stored events as they are.
C24_ListAfterCursor ==
    /\ [](ListIsCurrent => ListedAfterCursor(lastList.limit))
    /\ [][lastList' # lastList => sync_events' = sync_events]_vars

\* C24, amended: as stated for a positive limit; a limit of 0 or less is
\* replaced by 50, so such a call returns up to 50 events.
C24_ListAfterCursorDefaultPage ==
    /\ [](ListIsCurrent =>
            ListedAfterCursor(IF lastList.limit <= 0 THEN DefaultPage
                              ELSE lastList.limit))
    /\ [][lastList' # lastList => sync_events' = sync_events]_vars

\* two events are stored and get_events(None, 1) returned the older one
C24_Witness ==
    /\ ListIsCurrent
    /\ lastList.after_id = NoneInt
    /\ lastList.limit = 1
    /\ Cardinality(sync_events) = 2
    /\ Ids(lastList.events) = <<1>>

\* the last two get_events calls had the same after_id and limit, exactly
\* one record_event call and no prune came between them, and nothing was
\* written since
RepeatedAcrossOneRecord ==
    /\ prevList.called
    /\ lastList.called
    /\ gap = "record"
    /\ sinceList = "none"

\* the event get_events returns for the row recorded last
NewEvent == [lastRecorded EXCEPT !.payload = payload_loads(@)]

\* C25 as stated: two get_events calls with the same after_id and limit,
\* with exactly one record_event and no prune between them, return lists
\* that differ by exactly the new event: the second is the first with the
\* new event appended.
C25_OneRecordOneMoreEvent ==
    RepeatedAcrossOneRecord =>
       lastList.events = Append(prevList.events, NewEvent)

\* C25, amended: the second list is the first with the new event appended
\* when the first call returned fewer events than its limit (50 for a limit
\* of 0 or less) and the new id is greater than after_id; otherwise the two
\* lists are equal.
C25_OneMoreEventUnlessFull ==
    RepeatedAcrossOneRecord =>
       LET most == IF lastList.limit <= 0 THEN DefaultPage ELSE lastList.limit
           a == IF lastList.after_id.some THEN lastList.after_id.v ELSE 0
       IN IF Len(prevList.events) < most /\ lastRecorded.id > a
          THEN lastList.events = Append(prevList.events, NewEvent)
          ELSE lastList.events = prevList.events

\* get_events(None, 1) twice around the second record_event: both calls
\* returned the first event alone
C25_Witness ==
    /\ RepeatedAcrossOneRecord
    /\ lastList.limit = 1
    /\ lastList.after_id = NoneInt
    /\ lastRecorded.id = 2
    /\ Ids(prevList.events) = <<1>>
    /\ Ids(lastList.events) = <<1>>
    /\ Cardinality(sync_events) = 2

\* the poller's cursor as a number: None comes before every id
CursorValue(c) == IF c.some THEN c.v ELSE 0

\* C26: a poller that passes each returned last_id as its next after_id
\* receives events in ascending id order and none twice, has received
\* every stored event whose id is not above its cursor (no stored event is
\* passed over), never sees its cursor decrease, and gets back the cursor
\* it passed when a poll returns no event.
C26_PollerSeesEachEventOnce ==
    /\ [](/\ \A i, j \in 1..Len(received) :
                i < j => received[i] < received[j]
          /\ \A r \in sync_events :
                r.id <= CursorValue(cursor) =>
                   \E i \in 1..Len(received) : received[i] = r.id
          /\ \A i \in 1..Len(received) : received[i] <= CursorValue(cursor))
    /\ [][ /\ CursorValue(cursor') >= CursorValue(cursor)
           /\ (received' = received => cursor' = cursor)
           /\ (received' # received =>
                  /\ Len(received') > Len(received)
                  /\ SubSeq(received', 1, Len(received)) = received
                  /\ cursor' = Some(received'[Len(received')])) ]_vars

\* the poller took both events one poll at a time, then the log was pruned
\* empty: its cursor stays at 2
C26_Witness ==
    /\ received = <<1, 2>>
    /\ cursor = Some(2)
    /\ sync_events = {}
    /\ lastPrune.deleted = 2

\* C27: a stored event never changes: a row that is still stored after a
\* step is the row it was, so the order of the events by id stays.  A
\* record_event call adds one row and leaves the others; a get_events
\* call leaves the table as it is; a row goes away only in a prune call.
C27_EventsAppendOnly ==
    [][ /\ \A r \in sync_events, q \in sync_events' : r.id = q.id => r = q
        /\ (issued' # issued =>
               /\ sync_events \subseteq sync_events'
               /\ Cardinality(sync_events') = Cardinality(sync_events) + 1)
        /\ (lastList' # lastList \/ prevList' # prevList =>
               sync_events' = sync_events)
        /\ (~ (sync_events \subseteq sync_events') =>
               /\ issued' = issued
               /\ lastList' = lastList
               /\ lastPrune'.called
               /\ lastPrune'.deleted =
                     Cardinality(sync_events \ sync_events')) ]_vars

\* two events of the same account are stored, recorded an hour apart; a
\* prune has run without deleting and get_events returned both
C27_Witness ==
    /\ Cardinality(sync_events) = 2
    /\ \A r \in sync_events : r.entity_type = "account"
    /\ \E r, q \in sync_events : r.created_at < q.created_at
    /\ lastPrune.called
    /\ lastPrune.deleted = 0
    /\ ListIsCurrent
    /\ Len(lastList.events) = 2

\* a step that is a prune call
PruneStep == lastPrune' # lastPrune \/ ~ (sync_events \subseteq sync_events')

\* the stored events created earlier than keep_hours before now
OlderThan(keep_hours) ==
    { r \in sync_events : r.created_at < clock - keep_hours }

UpdateStep == updateCalls' # updateCalls

\* new is old merged with upd, as far as the keys of old go: a key the
\* update does not name keeps its value; where the update names a mapping
\* for a key that holds a mapping, the same goes for the keys inside; a
\* scalar the update names is the new value
RECURSIVE SiblingsKept(_, _, _)
SiblingsKept(old, upd, new) ==
    /\ \A k \in DOMAIN old :
          /\ k \in DOMAIN new
          /\ IF k \notin DOMAIN upd THEN new[k] = old[k]
             ELSE IF old[k].t = "dict" /\ upd[k].t = "dict"
             THEN /\ new[k].t = "dict"
                  /\ SiblingsKept(old[k].m, upd[k].m, new[k].m)
             ELSE TRUE
    /\ \A k \in DOMAIN upd :
          upd[k].t = "scalar" => k \in DOMAIN new /\ new[k] = upd[k]

\* C29: update_section merges key by key at every depth: the sections it
\* is not called for keep their values, and in its section every key beside
\* the ones the update names, at each level the update goes through, keeps
\* its value, while the named leaves take the new values.
C29_UpdateChangesOnlyNamedLeaves ==
    [][ UpdateStep =>
          LET s == lastUpdate'.section
          IN /\ \A t \in DOMAIN _data : t \in DOMAIN _data'
             /\ \A t \in DOMAIN _data \ {s} : _data'[t] = _data[t]
             /\ s \in DOMAIN _data /\ _data[s].t = "dict" =>
                   /\ _data'[s].t = "dict"
                   /\ SiblingsKept(_data[s].m, lastUpdate'.updates,
                                   _data'[s].m) ]_vars

\* update_section("scheduler", {"jobs": {"refresh_accounts": {"enabled":
\* false}}}) on the defaults: only that flag changed
C29_Witness ==
    /\ lastUpdate.called
    /\ lastUpdate.section = "scheduler"
    /\ lastUpdate.updates =
          [jobs |-> Dict([refresh_accounts |->
                             Dict([enabled |-> Scalar("false")])])]
    /\ _data = [StoreDefaults EXCEPT
                  !.scheduler.m.jobs.m.refresh_accounts = Job("false", "30")]

\* every key of old, at every depth, is a key of new, and no value that
\* was not None has become None
RECURSIVE KeysKept(_, _)
KeysKept(old, new) ==
    \A k \in DOMAIN old :
       /\ k \in DOMAIN new
       /\ old[k].t # "null" => new[k].t # "null"
       /\ old[k].t = "dict" =>
             /\ new[k].t = "dict"
             /\ KeysKept(old[k].m, new[k].m)

\* C30 as stated: no update_section call removes a key from a section, at
\* any depth, or turns a value that is not null into null; the key set of
\* every section only grows.
C30_KeysOnlyGrow ==
    [][ UpdateStep =>
          \A t \in DOMAIN _data :
             /\ t \in DOMAIN _data'
             /\ _data[t].t # "null" => _data'[t].t # "null"
             /\ _data[t].t = "dict" =>
                   /\ _data'[t].t = "dict"
                   /\ KeysKept(_data[t].m, _data'[t].m) ]_vars

\* as KeysKept, but the keys inside a mapping are followed only where the
\* update names a mapping for it or does not name it: a key the update
\* does not name, or names with None, keeps its value
RECURSIVE KeysKeptUnlessReplaced(_, _, _)
KeysKeptUnlessReplaced(old, upd, new) ==
    \A k \in DOMAIN old :
       /\ k \in DOMAIN new
       /\ old[k].t # "null" => new[k].t # "null"
       /\ k \notin DOMAIN upd \/ DictGet(upd, k).t = "null" =>
             new[k] = old[k]
       /\ old[k].t = "dict" /\ DictGet(upd, k).t = "dict" =>
             /\ new[k].t = "dict"
             /\ KeysKeptUnlessReplaced(old[k].m, upd[k].m, new[k].m)

\* C30, amended: no update_section call removes a key of a section or
\* turns a value that is not null into null, and a key missing from the
\* update or named with null keeps its value, at every level where the
\* update names a mapping for a mapping; a non-null value that is not a
\* mapping replaces an existing mapping whole, with the keys inside it.
C30_KeysGrowUnlessMappingReplaced ==
    [][ UpdateStep =>
          LET s == lastUpdate'.section
          IN \A t \in DOMAIN _data :
                /\ t \in DOMAIN _data'
                /\ _data[t].t # "null" => _data'[t].t # "null"
                /\ t # s => _data'[t] = _data[t]
                /\ t = s /\ _data[t].t = "dict" =>
                      /\ _data'[t].t = "dict"
                      /\ KeysKeptUnlessReplaced(_data[t].m,
                                                lastUpdate'.updates,
                                                _data'[t].m) ]_vars

\* update_section("scheduler", {"jobs": {"refresh_accounts": {"enabled":
\* None, "interval_minutes": "5"}}}): the flag named with None is kept
C30_Witness ==
    /\ lastUpdate.called
    /\ lastUpdate.section = "scheduler"
    /\ lastUpdate.updates =
          [jobs |-> Dict([refresh_accounts |->
                             Dict([enabled |-> VNull,
                                   interval_minutes |-> Scalar("5")])])]
    /\ _data["scheduler"].m["jobs"].m["refresh_accounts"] = Job("true", "5")
    /\ "auto_renew_trials" \in DOMAIN _data["scheduler"].m["jobs"].m

\* C36: a batch_update_status call over the ids of existing accounts only
\* returns with updated equal to the number of ids and failed 0, leaves its
\* record completed with those counts, and has applied the status to every
\* one of the accounts.
C36_UpdateStatusAppliesToAll ==
    [][ /\ bpc = "loop"
        /\ bpc' = "idle"
        /\ call.op = "update_status"
        /\ \A i \in 1..Len(call.items) : call.items[i] = "ok"
        => /\ lastEnded'.outcome = "returned"
              => /\ lastEnded'.count = Len(call.items)
                 /\ lastEnded'.failed = 0
                 /\ batch_operations'[call.batch_id].status = "completed"
                 /\ batch_operations'[call.batch_id].completed_items =
                       Len(call.items)
                 /\ \A i \in 1..Len(call.items) :
                       <<call.batch_id, i>> \in store' ]_vars

\* the rows a step adds to sync_events
AddedRows == sync_events' \ sync_events

\* C37: with an event service attached, the step in which a bulk call ends
\* with its record finalized returns, and adds to sync_events exactly one
\* row, of entity type 'batch' and carrying the batch id, whose id is larger
\* than the id of every row already there (the per-item events of the call
\* among them); when recording that row fails, the call still returns, no
\* row is added and the record is the finalized one.
C37_OneBatchEventAfterFinalization ==
    [][ /\ bpc = "loop"
        /\ bpc' = "idle"
        /\ batch_operations'[call.batch_id].status # "running"
        => /\ lastEnded'.outcome = "returned"
           /\ batch_operations' =
                 _complete_batch_operation(batch_operations, call.batch_id,
                     FinalStatus(call.failed_count), call.errors, now)
           /\ \/ /\ Cardinality(AddedRows) = 1
                 /\ events' = events + 1
              \/ /\ AddedRows = {}
                 /\ events' = events
           /\ \A r \in AddedRows :
                 /\ r.entity_type = "batch"
                 /\ r.entity_id = call.batch_id
                 /\ r.action = call.op
                 /\ \A q \in sync_events : q.id < r.id ]_vars

\* a returned bulk call whose 'batch' event follows a per-item event
C37_Witness ==
    /\ lastEnded.outcome = "returned"
    /\ \E r, q \in sync_events :
          /\ r.entity_type = "batch"
          /\ r.entity_id = lastEnded.batch_id
          /\ q.entity_type = "account"
          /\ q.id < r.id

\* C39: update_job_config for a job that has no entry in the scheduler
\* settings raises, and the call leaves the settings document, the timers
\* of the scheduler and the jobs it tracks as they were.
C39_UnknownJobRaisesAndChangesNothing ==
    [][ \A j \in JobIds :
          ( /\ spc = "idle"
            /\ ~ settings.jobs[j].present
            /\ lastCall' # lastCall
            /\ lastCall'.op = "update_job_config"
            /\ lastCall'.job = j )
          => /\ lastCall'.raised
             /\ settings' = settings
             /\ timers' = timers
             /\ _scheduled_jobs' = _scheduled_jobs
             /\ spc' = "idle" ]_vars

\* update_job_config has raised for an unknown job while a timer is active
C39_Witness ==
    /\ lastCall.op = "update_job_config"
    /\ lastCall.raised
    /\ ~ settings.jobs[lastCall.job].present
    /\ timers # {}

\* the step in which the timer of job j fires
FiredStep(j) ==
    /\ countdown[j] = 0
    /\ countdown'[j] > 0
    /\ timers' = timers
    /\ lastEvent'.job = j
    /\ lastEvent'.kind \in {"submitted", "skipped"}

\* C40: every rebuild of the schedule restarts the countdown of every
\* scheduled job, those whose configuration did not change included: when
\* the rebuild ends each timer has its whole interval left, at any time no
\* timer has used more of its interval than the time since the last rebuild,
\* and a timer fires only when a whole interval has passed since it.
C40_RebuildRestartsEveryCountdown ==
    [][ /\ (spc = "add" /\ spc' = "idle")
           => \A t \in timers' : countdown'[t.id] = t.interval
        /\ \A t \in timers' : t.interval - countdown'[t.id] <= sinceSync'
        /\ \A t \in timers : FiredStep(t.id) => sinceSync >= t.interval ]_vars

\* update_job_config on one job has rebuilt the schedule after the clock
\* had run: the timer of the other job has its whole interval left again
C40_Witness ==
    /\ spc = "idle"
    /\ started
    /\ minute > 0
    /\ sinceSync = 0
    /\ lastCall.op = "update_job_config"
    /\ ~ lastCall.raised
    /\ \E t \in timers :
          /\ t.id # lastCall.job
          /\ t.interval > 1
          /\ countdown[t.id] = t.interval

\* the timers the settings document asks for
TimersOf(s) == IF s.enabled THEN JobsToSchedule(s, _job_factories) ELSE {}

\* C35: when two threads run config mutations concurrently, once every call
\* has returned the active timers are those of the final settings document:
\* none for a job the settings disable, globally or per job, and each at
\* the interval the settings give.
C35_TimersMatchFinalSettings ==
    (\A t \in Threads : tpc[t] = "idle") => timers = TimersOf(settings)

\* no connection has been used by two threads
ConnectionPerThread ==
    \A c \in 1..(MaxConns + 1) :
       Cardinality({ t \in Contexts : <<c, t>> \in uses }) <= 1

\* a step that empties the slot of one thread leaves the connection of
\* every other thread in its slot and open
CloseReleasesOwn ==
    \A t \in Contexts :
       (local[t] # 0 /\ local'[t] = 0)
       => \A u \in Contexts \ {t} :
             local'[u] = local[u] /\ local[u] \notin closedConns'

\* no write of a thread has been refused on account of the other thread
WritesSerialized == \A t \in Contexts : dresult[t] # "locked"

\* C34: every thread gets its own connection from Database: no connection
\* is used by two threads, close() releases only the connection of the
\* calling thread, and writes of two threads are serialized by the engine:
\* a committed write stays and no write is refused because of the other
\* thread.
C34_OwnConnectionWritesSerialized ==
    /\ [](ConnectionPerThread /\ WritesSerialized)
    /\ [][CloseReleasesOwn /\ committed \subseteq committed']_vars

\* the part of C34 that is about connections and close()
C34_ConnectionsThreadLocal ==
    /\ []ConnectionPerThread
    /\ [][CloseReleasesOwn /\ committed \subseteq committed']_vars

\* the value of self._data
Memory == Tree(objects, data_root)

\* the step of a call of the settings store
StoreStep(ops) == storeOps' = storeOps + 1 /\ lastStore'.op \in ops

\* C31: when set or update_section has returned, the persisted document
\* equals the in-memory document, and a reload (or a new SettingsManager on
\* the same path) at that moment yields the same settings.
C31_PersistedEqualsMemory ==
    [][ StoreStep({"set", "update_section"})
        => /\ persisted' = [kind |-> "json", val |-> Dict(Memory')]
           /\ ReloadTree(objects', persisted') = Memory' ]_vars

\* C32: reload never raises, whatever the file holds, and after it every
\* section that is a mapping in the built-in defaults is a mapping in the
\* settings: a part of the file that cannot be used has fallen back to the
\* defaults.
C32_ReloadNeverFails ==
    lastStore.op = "reload"
    => /\ ~ lastStore.raised
       /\ \A k \in DOMAIN StoreDefaults :
             StoreDefaults[k].t = "dict" => Memory[k].t = "dict"

\* C33: a change a caller makes to the mapping get_section returned, at the
\* top level or inside a nested mapping, changes neither the in-memory
\* settings nor the persisted document.
C33_GetSectionReturnsCopy ==
    [][ StoreStep({"change_top", "change_nested"})
        => /\ Memory' = Memory
           /\ persisted' = persisted ]_vars

\* C38: whatever calls were made on one SettingsManager, a new
\* SettingsManager on a path with no file loads the original built-in
\* defaults.
C38_DefaultsNeverModified == fresh.loaded => fresh.m = StoreDefaults

====
